---- MODULE Spec2Model ----
(***************************************************************************)
(* A model of the storage and retrieval core of the endee vector database: *)
(* the ID mapper and its write-ahead log (storage/id_mapper.hpp,           *)
(* storage/wal.hpp), the numeric bucket index and the filter facade        *)
(* (filter/numeric_index.hpp, filter/filter.hpp, filter/bitmap_index.hpp)  *)
(* and the Block-Max WAND sparse index (sparse/bmw.hpp).                   *)
(*                                                                         *)
(* Every subsystem has its own next-state relation and specification; the  *)
(* variables of the other subsystems stay at their initial values.         *)
(***************************************************************************)
EXTENDS Integers, Sequences, FiniteSets, TLC

(***************************************************************************)
(* Bounds of the model (not program constants).                            *)
(***************************************************************************)
\* create_ids_batch never mints an id above MaxNextId
MaxNextId == 3
\* longest batch handed to create_ids_batch, deletePoints and log
MaxElements == 3     \* maxelements_ of the BruteforceSearch
MaxPoint == 2        \* the largest coordinate of a point or query
DistMax == 1000      \* std::numeric_limits<dist_t>::max(), above every distance
MaxBatch == 2
\* longest DELETED_IDS list that reclaim_failed_ids is still called on
MaxDeleted == 2
\* most records in wal.bin
MaxWalRecords == 2
\* the documents of the sparse index are 1..MaxDocId
MaxDocId == 4
\* longest batch handed to addDocumentsBatch
MaxBmwBatch == 2
\* the stores of the sparse storage stop when vector_count_ reaches
\* MaxVectorCount, the deletes when it has wrapped MaxUnderflow below zero
MaxVectorCount == 2
MaxUnderflow == 1

\* external ids used by the callers
ExtIds == {"a", "b"}
\* the threads that call create_ids_batch
Threads == {"t1", "t2"}

VARIABLES
    \* ---- IDMapper: the MDBX database of id_mapper.hpp
    ext2int,        \* ext->int entries: a function from the mapped strings to ids
    next_id,        \* the value stored under NEXT_ID_KEY
    deleted_ids,    \* the list stored under DELETED_IDS_KEY (<<>> when the key is absent)
    deleted_key,    \* whether the database holds an entry for DELETED_IDS_KEY
    \* ---- create_ids_batch calls in flight, one per thread
    call,           \* call[t]: the position (pc) and the locals of thread t's call
    minted,         \* history: every id get_next_ids has returned so far
    handed_out,     \* history: the <<str_id, id>> pairs create_ids_batch has returned
                    \*          whose id deletePoints has not returned since
    \* ---- WriteAheadLog: wal.hpp
    wal_file,       \* the bytes of wal.bin
    wal_enabled,    \* enabled_
    wal_entry_count,\* entry_count_
    wal_logged,     \* history: the entries log() wrote since the last clear() whose
                    \*          records are whole in the file
    \* ---- NumericIndex: numeric_index.hpp
    num_forward,    \* numeric_forward: <<field, id>> -> value
    num_inverted,   \* numeric_inverted: <<field, start_val>> -> the bucket's entries
    num_current,    \* history: <<field, id>> -> the value last put and not removed
    \* ---- Filter and BitmapIndex: filter.hpp, bitmap_index.hpp
    schema_cache,   \* schema_cache_: field -> FieldType
    bitmap_db,      \* the bitmap table: "field:value" -> the set of ids of the bitmap
    filter_docs,    \* history: id -> the filter JSON it was ingested with and not removed
    \* ---- BMWIndex: bmw.hpp
    term_blocks_index,    \* term_blocks_index_: term -> the list of BlockIdx of the term
    term_blocks,          \* the term_blocks table: <<term, start_doc_id>> -> block
    term_blocks_index_db, \* the term_blocks_index table: term -> the saved BlockIdx list
    \* ---- SparseVectorStorage: sparse_storage.hpp
    sparse_docs,    \* the sparse_docs table: doc_id -> the packed vector
    vector_count,   \* vector_count_; -n stands for the size_t 2^64 - n
    sparse_txn,     \* the write transaction of the last write: its status, its view
                    \* of the three tables, and the block lists and the count the
                    \* write started from
    \* ---- the pure conversions: numeric_index.hpp:18-42, sparse_vector.hpp
    sortable_call,  \* the last call of the sortable encoders: its two arguments,
                    \* their keys and the values decoded from the keys
    pack_call,      \* the last vector packed: the vector, its bytes, the vector
                    \* unpacked from them
    \* ---- BitmapIndex calls in flight, one per thread: bitmap_index.hpp:132-176
    bitmap_call,    \* bitmap_call[t]: the position (pc) of thread t's call, its key,
                    \* its ids and the bitmap it holds between the read and the store
    bitmap_added,   \* history: key -> the ids the calls that returned have added
                    \*          and not removed, in the order of their stores
    \* ---- SparseVectorStorage::Transaction held by a caller: sparse_storage.hpp:42-81
    txn_obj,        \* the Transaction object: committed_, the state of txn_, the
                    \* tables as the transaction sees them, what commit() last
                    \* returned, and whether the store took its writes
    \* ---- BruteforceSearch: bruteforce.h
    data_,                      \* the slots 0..maxelements_-1: label and datapoint
    cur_element_count,          \* the number of slots in use
    dict_external_to_internal,  \* label -> slot
    bf_undefined    \* a call has read outside data_: the object is followed no further

mapperVars == <<ext2int, next_id, deleted_ids, deleted_key, call, minted, handed_out>>
walVars == <<wal_file, wal_enabled, wal_entry_count, wal_logged>>
numericVars == <<num_forward, num_inverted, num_current>>
\* the indexes; the ID mapper and the WAL leave them alone
filterVars == <<schema_cache, bitmap_db, filter_docs>>
bmwVars == <<term_blocks_index, term_blocks, term_blocks_index_db>>
sparseVars == <<sparse_docs, vector_count, sparse_txn>>
codecVars == <<sortable_call, pack_call>>
bitmapCallVars == <<bitmap_call, bitmap_added>>
txnVars == <<txn_obj>>
bruteVars == <<data_, cur_element_count, dict_external_to_internal, bf_undefined>>
indexVars ==
    <<numericVars, filterVars, bmwVars, sparseVars, codecVars, bitmapCallVars, txnVars, bruteVars>>
vars == <<mapperVars, walVars, indexVars>>

(***************************************************************************)
(* Helpers                                                                 *)
(***************************************************************************)
Min(a, b) == IF a <= b THEN a ELSE b

Max(a, b) == IF a >= b THEN a ELSE b

\* the set of sequences over S of length lo..hi
SeqsOf(S, lo, hi) == UNION {[1..n -> S] : n \in lo..hi}

\* the indices of s that satisfy Test, in ascending order
RECURSIVE SelectIdx(_, _, _)
SelectIdx(s, Test(_), i) ==
    IF i > Len(s) THEN <<>>
    ELSE (IF Test(s[i]) THEN <<i>> ELSE <<>>) \o SelectIdx(s, Test, i + 1)

NoDuplicates(s) == \A i, j \in 1..Len(s) : i # j => s[i] # s[j]

(***************************************************************************)
(* WriteAheadLog (wal.hpp)                                                 *)
(***************************************************************************)
VECTOR_ADD == 1
VECTOR_DELETE == 2
VECTOR_UPDATE == 3

\* sizeof(ndd::idInt) in the default 32-bit build
IdBytes == 4
\* sizeof(size_t)
SizeTBytes == 8
\* bytes of one record written by log(): the op byte and the id
RecordBytes == 1 + IdBytes

\* the little-endian bytes of an unsigned value, n bytes wide
RECURSIVE LEBytes(_, _)
LEBytes(v, n) == IF n = 0 THEN <<>> ELSE <<v % 256>> \o LEBytes(v \div 256, n - 1)

\* the value of little-endian bytes b[from..from+n-1]
RECURSIVE LEValue(_, _, _)
LEValue(b, from, n) ==
    IF n = 0 THEN 0 ELSE b[from] + 256 * LEValue(b, from + 1, n - 1)

\* what log() writes for one entry: the op byte, then the id
WalEntryBytes(e) == <<e.op_type>> \o LEBytes(e.numeric_id, IdBytes)

RECURSIVE WalEntriesBytes(_)
WalEntriesBytes(entries) ==
    IF entries = <<>> THEN <<>>
    ELSE WalEntryBytes(Head(entries)) \o WalEntriesBytes(Tail(entries))

\* log(entries): nothing when disabled or empty, else append and count
WalLogFile(file, enabled, entries) ==
    IF ~enabled \/ entries = <<>> THEN file ELSE file \o WalEntriesBytes(entries)

WalLogCount(count, enabled, entries) ==
    IF ~enabled \/ entries = <<>> THEN count ELSE count + Len(entries)

\* the size_t at b[from..from+7] is at most `room` (a larger one is never computed:
\* the string it announces cannot be read from the file)
StrLenFits(b, from, room) ==
    /\ \A k \in IdBytes..(SizeTBytes - 1) : b[from + k] = 0
    /\ b[from + IdBytes - 1] < 128
    /\ LEValue(b, from, IdBytes) <= room

\* readEntries(): the loop of wal.hpp:93-128 from offset p (bytes consumed so far).
\* Every `break` ends the list; the entry is pushed only after all its reads.
RECURSIVE ReadEntriesFrom(_, _)
ReadEntriesFrom(b, p) ==
    IF p + 1 > Len(b) THEN <<>>                         \* eof reading op
    ELSE IF p + RecordBytes > Len(b) THEN <<>>          \* eof reading numeric_id
    ELSE LET op == b[p + 1]
             entry == [op_type |-> op, numeric_id |-> LEValue(b, p + 2, IdBytes)]
             q == p + RecordBytes
         IN  IF op = VECTOR_ADD
             THEN \* "Only VECTOR_ADD has string_id": a size_t length, then the string
                  IF q + SizeTBytes > Len(b) THEN <<>>  \* eof reading str_len
                  ELSE IF ~StrLenFits(b, q + 1, Len(b) - (q + SizeTBytes))
                       THEN <<>>                        \* eof (or bad_alloc) reading the string
                       ELSE <<entry>> \o ReadEntriesFrom(b,
                                q + SizeTBytes + LEValue(b, q + 1, IdBytes))
             ELSE <<entry>> \o ReadEntriesFrom(b, q)

readEntries(file) == ReadEntriesFrom(file, 0)

(***************************************************************************)
(* IDMapper (id_mapper.hpp): the steps of create_ids_batch as operators    *)
(***************************************************************************)
\* static_cast<idInt>(-1)
INVALID_LABEL == -1

\* id_mapper.hpp:100-107: <str_id, numeric_id, is_new_to_db, is_reused>
InitTuples(str_ids) ==
    [i \in 1..Len(str_ids) |->
        [str_id |-> str_ids[i], id |-> INVALID_LABEL, is_new |-> TRUE, is_reused |-> FALSE]]

\* id_mapper.hpp:111-160: the read-only transaction that looks every string up
LookupTuples(tuples, db) ==
    [i \in 1..Len(tuples) |->
        IF tuples[i].id # INVALID_LABEL THEN tuples[i]
        ELSE IF tuples[i].str_id \in DOMAIN db
             THEN [tuples[i] EXCEPT !.id = db[tuples[i].str_id], !.is_new = FALSE]
             ELSE [tuples[i] EXCEPT !.id = 0]]

\* id_mapper.hpp:164-167
TotalNewIdsNeeded(tuples) == Cardinality({i \in 1..Len(tuples) : tuples[i].id = 0})

\* getDeletedIds(max_count), id_mapper.hpp:445-479: the ids taken ...
GetDeletedIdsResult_Lifo(deleted, max_count) ==
    SubSeq(deleted, Len(deleted) - Min(max_count, Len(deleted)) + 1, Len(deleted))

GetDeletedIdsResult(deleted, max_count) ==
    SubSeq(deleted, 1, Min(max_count, Len(deleted)))

\* ... and the list written back (the key is deleted when nothing remains)
GetDeletedIdsRest(deleted, max_count) ==
    SubSeq(deleted, Min(max_count, Len(deleted)) + 1, Len(deleted))

\* id_mapper.hpp:177-185: hand the popped ids to the new entries, in input order
RECURSIVE AssignDeleted(_, _, _, _)
AssignDeleted(tuples, deletedIds, i, deleted_index) ==
    IF i > Len(tuples) THEN [tuples |-> tuples, deleted_index |-> deleted_index]
    ELSE IF tuples[i].id = 0 /\ tuples[i].is_new /\ deleted_index < Len(deletedIds)
         THEN AssignDeleted(
                [tuples EXCEPT ![i].id = deletedIds[deleted_index + 1],
                               ![i].is_reused = TRUE],
                deletedIds, i + 1, deleted_index + 1)
         ELSE AssignDeleted(tuples, deletedIds, i + 1, deleted_index)

\* get_next_ids(size), id_mapper.hpp:505-553: the ids returned (std::iota from current_id)

NextIdsFrom(current_id, size) == [i \in 1..size |-> current_id + i - 1]

\* ... and the value stored back under NEXT_ID_KEY
NextIdAfter_Short(current_id, size) == current_id + size - 1

NextIdAfter(current_id, size) == current_id + size

\* id_mapper.hpp:198-217: the entries logged: the reused ids, then the fresh ones
WalEntriesOfBatch_FreshOnly(tuples, new_ids) ==
    [i \in 1..Len(new_ids) |-> [op_type |-> VECTOR_ADD, numeric_id |-> new_ids[i]]]

WalEntriesOfBatch(tuples, new_ids) ==
    LET reusedIdx == SelectIdx(tuples, LAMBDA t : t.is_new /\ t.id # 0, 1)
    IN  [i \in 1..Len(reusedIdx) |->
            [op_type |-> VECTOR_ADD, numeric_id |-> tuples[reusedIdx[i]].id]]
        \o [i \in 1..Len(new_ids) |-> [op_type |-> VECTOR_ADD, numeric_id |-> new_ids[i]]]

\* try_write, id_mapper.hpp:229-289: the puts of the write transaction, in input order.
\* rc is "SUCCESS" or "PROBLEM" (new_ids ran out); db is the transaction's view.
RECURSIVE TryWrite(_, _, _, _, _)
TryWrite(tuples, new_ids, db, i, new_id_index) ==
    IF i > Len(tuples) THEN [rc |-> "SUCCESS", tuples |-> tuples, db |-> db]
    ELSE LET t == tuples[i] IN
         IF t.is_new /\ t.id # 0
         THEN TryWrite(tuples, new_ids,
                       [s \in DOMAIN db \cup {t.str_id} |->
                            IF s = t.str_id THEN t.id ELSE db[s]],
                       i + 1, new_id_index)
         ELSE IF t.id = 0
              THEN IF new_id_index >= Len(new_ids)
                   THEN [rc |-> "PROBLEM", tuples |-> tuples, db |-> db]
                   ELSE LET new_id == new_ids[new_id_index + 1] IN
                        TryWrite([tuples EXCEPT ![i].id = new_id], new_ids,
                                 [s \in DOMAIN db \cup {t.str_id} |->
                                      IF s = t.str_id THEN new_id ELSE db[s]],
                                 i + 1, new_id_index + 1)
              ELSE TryWrite(tuples, new_ids, db, i + 1, new_id_index)

\* id_mapper.hpp:318-330: <id, is_new_to_hnsw> per input
ResultOf(tuples) ==
    [i \in 1..Len(tuples) |->
        <<tuples[i].id, IF tuples[i].is_reused THEN FALSE ELSE tuples[i].is_new>>]

\* deletePoints without the mdbx_del inside the loop: every occurrence of a
\* mapped string finds its id
RECURSIVE DeletePointsIds_Keep(_, _)
DeletePointsIds_Keep(external_ids, db) ==
    IF external_ids = <<>> THEN <<>>
    ELSE <<IF Head(external_ids) \in DOMAIN db THEN db[Head(external_ids)] ELSE 0>>
         \o DeletePointsIds_Keep(Tail(external_ids), db)

\* deletePoints, id_mapper.hpp:393-442: the ids returned (0 for a missing string);
\* a string erased earlier in the same transaction is missing for a later occurrence
RECURSIVE DeletePointsIds(_, _)
DeletePointsIds(external_ids, db) ==
    IF external_ids = <<>> THEN <<>>
    ELSE LET e == Head(external_ids) IN
         IF e \in DOMAIN db
         THEN <<db[e]>> \o DeletePointsIds(Tail(external_ids),
                                [s \in DOMAIN db \ {e} |-> db[s]])
         ELSE <<0>> \o DeletePointsIds(Tail(external_ids), db)

DeletePointsDb(external_ids, db) ==
    [s \in DOMAIN db \ {external_ids[i] : i \in 1..Len(external_ids)} |-> db[s]]

\* id_mapper.hpp:428-433: the non-zero ids are appended to DELETED_IDS
DeletePointsDeleted(deleted, ids) == deleted \o SelectSeq(ids, LAMBDA l : l # 0)

\* add_to_deleted_ids, id_mapper.hpp:556-596 (reclaim_failed_ids): append them all
AddToDeletedIds(deleted, ids) == IF ids = <<>> THEN deleted ELSE deleted \o ids

(***************************************************************************)
(* IDMapper: state and actions.  Every MDBX transaction is one atomic      *)
(* step: write transactions are serialized by the store, a read-only       *)
(* transaction reads one snapshot.                                         *)
(***************************************************************************)
IdleCall ==
    [pc |-> "idle", str_ids |-> <<>>, use_deleted_ids |-> FALSE, wal_ptr |-> FALSE,
     id_tuples |-> <<>>, deletedIds |-> <<>>, new_ids |-> <<>>,
     total_new_ids_needed |-> 0, fresh_ids_count |-> 0, result |-> <<>>]

\* What mdbx_dbi_stat counts: the mappings, the entry for NEXT_ID_KEY and,
\* when the database holds it, the entry for DELETED_IDS_KEY
ms_entries == Cardinality(DOMAIN ext2int) + 1 + (IF deleted_key THEN 1 ELSE 0)

\* get_count() (id_mapper.hpp:333-352)
get_count == ms_entries - 1

\* IDMapper(path, is_new = true): init_next_id stores 1 (id_mapper.hpp:599-631)
InitMapper ==
    /\ ext2int = << >>
    /\ next_id = 1
    /\ deleted_ids = << >>
    /\ deleted_key = FALSE
    /\ call = [t \in Threads |-> IdleCall]
    /\ minted = {}
    /\ handed_out = {}

\* WriteAheadLog(index_dir) on a directory without wal.bin (wal.hpp:31-51)
InitWal ==
    /\ wal_file = << >>
    /\ wal_enabled = TRUE
    /\ wal_entry_count = 0
    /\ wal_logged = << >>

\* ids a call in flight may still mint, records it may still log
MayMint(c) ==
    IF c.pc \in {"deleted", "next"} THEN c.fresh_ids_count ELSE 0

MayLog(c) ==
    IF c.wal_ptr /\ c.pc \in {"deleted", "next", "wal"} THEN c.total_new_ids_needed ELSE 0

RECURSIVE SumMayMint(_)
SumMayMint(S) ==
    IF S = {} THEN 0
    ELSE LET x == CHOOSE y \in S : TRUE IN MayMint(call[x]) + SumMayMint(S \ {x})

RECURSIVE SumMayLog(_)
SumMayLog(S) ==
    IF S = {} THEN 0
    ELSE LET x == CHOOSE y \in S : TRUE IN MayLog(call[x]) + SumMayLog(S \ {x})

WalRecords == Len(wal_file) \div RecordBytes

\* the call has returned: its locals are gone, the caller holds the result
Returned(c, result) ==
    [IdleCall EXCEPT !.pc = "done", !.str_ids = c.str_ids, !.result = result]

\* the pairs the callers hold once the call is at c
HandedAfter(c) ==
    IF c.pc = "done"
    THEN handed_out \cup {<<c.str_ids[i], c.result[i][1]>> : i \in 1..Len(c.result)}
    ELSE handed_out

\* where a call goes once it holds every id it needs: nothing to write when
\* every string was found; the WAL is logged only when one was passed
AfterIds(c) ==
    IF c.total_new_ids_needed = 0 THEN Returned(c, ResultOf(c.id_tuples))
    ELSE IF c.fresh_ids_count > 0 THEN [c EXCEPT !.pc = "next"]
    ELSE IF c.wal_ptr THEN [c EXCEPT !.pc = "wal"]
    ELSE [c EXCEPT !.pc = "write"]

\* create_ids_batch<use_deleted_ids>(str_ids, wal_ptr) up to the end of its
\* read-only lookup transaction and the count of missing entries
\* (id_mapper.hpp:85-171)
CallCreateIdsBatch(t, str_ids, use_deleted, wal_ptr) ==
    /\ call[t].pc \in {"idle", "done", "thrown"}
    /\ LET tuples == LookupTuples(InitTuples(str_ids), ext2int)
           needed == TotalNewIdsNeeded(tuples)
           c1 == [IdleCall EXCEPT !.str_ids = str_ids,
                                  !.use_deleted_ids = use_deleted,
                                  !.wal_ptr = wal_ptr,
                                  !.id_tuples = tuples,
                                  !.total_new_ids_needed = needed,
                                  !.fresh_ids_count = needed]
           \* the ids this call can take from DELETED_IDS instead of minting
           reusable == IF use_deleted THEN Min(needed, Len(deleted_ids)) ELSE 0
       IN  /\ next_id + SumMayMint(Threads \ {t}) + needed - reusable <= MaxNextId
           /\ wal_ptr => WalRecords + SumMayLog(Threads \ {t}) + needed <= MaxWalRecords
           /\ call' = [call EXCEPT ![t] =
                         IF str_ids = <<>> THEN [IdleCall EXCEPT !.pc = "done"]
                         ELSE IF use_deleted THEN [c1 EXCEPT !.pc = "deleted"]
                         ELSE AfterIds(c1)]
           /\ handed_out' = IF str_ids = <<>> \/ use_deleted THEN handed_out
                             ELSE HandedAfter(AfterIds(c1))
    /\ UNCHANGED <<ext2int, next_id, deleted_ids, deleted_key, minted>>
    /\ UNCHANGED walVars
    /\ UNCHANGED indexVars

\* if(use_deleted_ids): getDeletedIds in its own write transaction, then the
\* assignment to the new entries (id_mapper.hpp:173-187, 445-479)
GetDeletedStep(t) ==
    /\ call[t].pc = "deleted"
    /\ LET c == call[t]
           popped == IF deleted_key
                     THEN GetDeletedIdsResult(deleted_ids, c.fresh_ids_count) ELSE <<>>
           a == AssignDeleted(c.id_tuples, popped, 1, 0)
       IN  /\ call' = [call EXCEPT ![t] =
                         AfterIds([c EXCEPT !.deletedIds = popped, !.id_tuples = a.tuples,
                                            !.fresh_ids_count =
                                                c.fresh_ids_count - a.deleted_index])]
           /\ deleted_ids' = IF deleted_key
                             THEN GetDeletedIdsRest(deleted_ids, c.fresh_ids_count)
                             ELSE deleted_ids
           \* count < total: the rest is written back; else the key is deleted
           /\ deleted_key' = (deleted_key
                              /\ Min(c.fresh_ids_count, Len(deleted_ids)) < Len(deleted_ids))
    /\ UNCHANGED <<ext2int, next_id, minted, handed_out>>
    /\ UNCHANGED walVars
    /\ UNCHANGED indexVars

\* if(fresh_ids_count > 0): get_next_ids under mutex_, one write transaction
\* (id_mapper.hpp:192-195, 505-553)
GetNextIdsStep(t) ==
    /\ call[t].pc = "next"
    /\ next_id + call[t].fresh_ids_count <= MaxNextId
    /\ LET c == call[t]
           ids == NextIdsFrom(next_id, c.fresh_ids_count)
       IN  /\ call' = [call EXCEPT ![t] =
                         [c EXCEPT !.new_ids = ids,
                                   !.pc = IF c.wal_ptr THEN "wal" ELSE "write"]]
           /\ next_id' = NextIdAfter(next_id, c.fresh_ids_count)
           /\ minted' = minted \cup {ids[i] : i \in 1..Len(ids)}
    /\ UNCHANGED <<ext2int, deleted_ids, deleted_key, handed_out>>
    /\ UNCHANGED walVars
    /\ UNCHANGED indexVars

\* if(wal_ptr): wal->log(wal_entries) (id_mapper.hpp:198-217, wal.hpp:60-79)
WalLogStep(t) ==
    /\ call[t].pc = "wal"
    /\ LET entries == WalEntriesOfBatch(call[t].id_tuples, call[t].new_ids)
       IN  /\ wal_file' = WalLogFile(wal_file, wal_enabled, entries)
           /\ wal_entry_count' = WalLogCount(wal_entry_count, wal_enabled, entries)
           /\ wal_logged' = IF wal_enabled THEN wal_logged \o entries ELSE wal_logged
    /\ call' = [call EXCEPT ![t].pc = "write"]
    /\ UNCHANGED <<wal_enabled>>
    /\ UNCHANGED <<ext2int, next_id, deleted_ids, deleted_key, minted, handed_out>>
    /\ UNCHANGED indexVars

\* STEP 4: the write transaction, committed or (rc # SUCCESS) aborted with a
\* throw (id_mapper.hpp:219-311), then the result list (id_mapper.hpp:318-330)
WriteStep(t) ==
    /\ call[t].pc = "write"
    /\ LET c == call[t]
           w == TryWrite(c.id_tuples, c.new_ids, ext2int, 1, 0)
       IN  IF w.rc = "SUCCESS"
           THEN /\ ext2int' = w.db
                /\ call' = [call EXCEPT ![t] = Returned(c, ResultOf(w.tuples))]
                /\ handed_out' = HandedAfter(Returned(c, ResultOf(w.tuples)))
           ELSE /\ ext2int' = ext2int
                /\ call' = [call EXCEPT ![t] = [IdleCall EXCEPT !.pc = "thrown"]]
                /\ handed_out' = handed_out
    /\ UNCHANGED <<next_id, deleted_ids, deleted_key, minted>>
    /\ UNCHANGED walVars
    /\ UNCHANGED indexVars

\* STEP 4 when mdbx_txn_begin, an mdbx_put of try_write or mdbx_txn_commit
\* returns an error: the transaction writes nothing and the call throws
\* (id_mapper.hpp:291-311)
WriteFailStep(t) ==
    /\ call[t].pc = "write"
    /\ call' = [call EXCEPT ![t] = [IdleCall EXCEPT !.pc = "thrown"]]
    /\ UNCHANGED <<ext2int, next_id, deleted_ids, deleted_key, minted, handed_out>>
    /\ UNCHANGED walVars
    /\ UNCHANGED indexVars

\* deletePoints(external_ids): one write transaction (id_mapper.hpp:393-442)
DeletePoints(external_ids) ==
    /\ LET ids == DeletePointsIds(external_ids, ext2int)
       IN  /\ Len(DeletePointsDeleted(deleted_ids, ids)) <= MaxDeleted
           /\ ext2int' = DeletePointsDb(external_ids, ext2int)
           /\ deleted_ids' = IF ids = <<>> THEN deleted_ids
                             ELSE DeletePointsDeleted(deleted_ids, ids)
           /\ deleted_key' = (deleted_key \/ ids # <<>>)
           /\ handed_out' = {p \in handed_out : \A i \in 1..Len(ids) : p[2] # ids[i]}
    /\ UNCHANGED <<next_id, call, minted>>
    /\ UNCHANGED walVars
    /\ UNCHANGED indexVars

\* reclaim_failed_ids(failed_ids): ids create_ids_batch handed out before
\* (id_mapper.hpp:482-484, 556-596)
ReclaimFailedIds(failed_ids) ==
    /\ Len(deleted_ids) + Len(failed_ids) <= MaxDeleted
    /\ deleted_ids' = AddToDeletedIds(deleted_ids, failed_ids)
    /\ deleted_key' = (deleted_key \/ failed_ids # <<>>)
    /\ UNCHANGED <<ext2int, next_id, call, minted, handed_out>>
    /\ UNCHANGED walVars
    /\ UNCHANGED indexVars

\* IDMapper(path, is_new = false) on a stored database: init_next_id is not
\* called, NEXT_ID keeps the stored value (id_mapper.hpp:72-74)
ReopenedNextId_Init(stored) == 1

ReopenedNextId(stored) == stored

\* the process dies and is started again: the calls in flight are gone with
\* their locals, every committed transaction is in the database, and
\* IDMapper(path) and WriteAheadLog(index_dir) open what is stored
\* (id_mapper.hpp:21-75, wal.hpp:31-51)
Crash ==
    /\ \E t \in Threads : call[t].pc # "idle"
    /\ call' = [t \in Threads |-> IdleCall]
    /\ next_id' = ReopenedNextId(next_id)
    /\ wal_enabled' = TRUE
    /\ wal_entry_count' = IF Len(wal_file) > 0 THEN 1 ELSE 0
    /\ UNCHANGED <<ext2int, deleted_ids, deleted_key, minted, handed_out>>
    /\ UNCHANGED <<wal_file, wal_logged>>
    /\ UNCHANGED indexVars

\* clear() (wal.hpp:133-138)
WalClear ==
    /\ wal_file' = << >>
    /\ wal_entry_count' = 0
    /\ wal_logged' = << >>
    /\ UNCHANGED wal_enabled
    /\ UNCHANGED mapperVars
    /\ UNCHANGED indexVars

\* disable() / enable() (wal.hpp:140-142)
WalDisable ==
    /\ wal_enabled
    /\ wal_enabled' = FALSE
    /\ UNCHANGED <<wal_file, wal_entry_count, wal_logged>>
    /\ UNCHANGED mapperVars
    /\ UNCHANGED indexVars

WalEnable ==
    /\ ~wal_enabled
    /\ wal_enabled' = TRUE
    /\ UNCHANGED <<wal_file, wal_entry_count, wal_logged>>
    /\ UNCHANGED mapperVars
    /\ UNCHANGED indexVars

(***************************************************************************)
(* NumericIndex (numeric_index.hpp).  A uint32 word with the 16-bit halves *)
(* hi and lo is held as the integer (hi - 2^15) * 2^16 + lo, which keeps   *)
(* the unsigned order of the words and so the byte order of the            *)
(* big-endian bucket keys.                                                 *)
(***************************************************************************)
\* the fields of the index in the byte order of their names
NumFields == <<"price", "stock">>
NumIds == {1, 2, 3}
NumValues == {0, 1}
\* Bucket::MAX_SIZE, 512 in the source, scaled down
MAX_SIZE == 3
HALF == 2^16
\* the uint32 word with halves hi and lo
U32Pack(hi, lo) == (hi - (HALF \div 2)) * HALF + lo
\* the uint32 value 0
U32_ZERO == U32Pack(0, 0)

NoKey == [f |-> "", s |-> 0, none |-> TRUE]
BucketKey(field, start_val) == [f |-> field, s |-> start_val, none |-> FALSE]
FwdKey(field, id) == <<field, id>>

FieldRank(field) == CHOOSE i \in 1..Len(NumFields) : NumFields[i] = field

\* the order of MDBX keys "field:" + big-endian start_val (the fields are not
\* prefixes of one another)
KeyLess(k1, k2) ==
    \/ FieldRank(k1.f) < FieldRank(k2.f)
    \/ k1.f = k2.f /\ k1.s < k2.s

\* the least / greatest key of a non-empty set
MinKey(keys) == CHOOSE k \in keys : \A j \in keys : j = k \/ KeyLess(k, j)
MaxKey(keys) == CHOOSE k \in keys : \A j \in keys : j = k \/ KeyLess(j, k)

\* mdbx_cursor_get with MDBX_SET_RANGE, MDBX_PREV, MDBX_NEXT and MDBX_LAST;
\* NoKey stands for MDBX_NOTFOUND
CursorSetRange(keys, target) ==
    LET ge == {k \in keys : k = target \/ KeyLess(target, k)}
    IN  IF ge = {} THEN NoKey ELSE MinKey(ge)

CursorPrev(keys, key) ==
    LET lt == {k \in keys : KeyLess(k, key)}
    IN  IF lt = {} THEN NoKey ELSE MaxKey(lt)

CursorNext(keys, key) ==
    LET gt == {k \in keys : KeyLess(key, k)}
    IN  IF gt = {} THEN NoKey ELSE MinKey(gt)

CursorLast(keys) == IF keys = {} THEN NoKey ELSE MaxKey(keys)

\* std::pair's operator<, the order std::sort keeps the entries in
EntryLess(e1, e2) == e1[1] < e2[1] \/ (e1[1] = e2[1] /\ e1[2] < e2[2])

\* Bucket::add: emplace_back, then std::sort
BucketAdd(entries, val, id) ==
    LET e == <<val, id>>
        k == Cardinality({i \in 1..Len(entries) : EntryLess(entries[i], e)})
    IN  SubSeq(entries, 1, k) \o <<e>> \o SubSeq(entries, k + 1, Len(entries))

\* Bucket::remove: the entries left, and whether one was erased
BucketRemove(entries, id) == SelectSeq(entries, LAMBDA e : e[2] # id)
BucketRemoved(entries, id) == \E i \in 1..Len(entries) : entries[i][2] = id

BucketIsFull(entries) == Len(entries) >= MAX_SIZE

\* Bucket::split: what stays (the lower half) and the new bucket (the upper half)
BucketSplitKept(entries) == SubSeq(entries, 1, Len(entries) \div 2)
BucketSplitNew(entries) == SubSeq(entries, (Len(entries) \div 2) + 1, Len(entries))

BucketMinVal(entries) == IF entries = <<>> THEN U32_ZERO ELSE entries[1][1]

\* the bucket add_to_bucket and remove_from_bucket pick for a value: the key
\* found by the cursor, or NoKey (numeric_index.hpp:418-477, 530-577)
FindBucketKey(inv, field, value) ==
    LET keys == DOMAIN inv
        target == BucketKey(field, value)
        found == CursorSetRange(keys, target)
    IN  IF ~found.none
        THEN IF found.f = field
             THEN IF KeyLess(target, found)
                  THEN LET prev == CursorPrev(keys, found)
                       IN  IF ~prev.none /\ prev.f = field THEN prev ELSE NoKey
                  ELSE found
             ELSE LET prev == CursorPrev(keys, found)
                  IN  IF ~prev.none /\ prev.f = field THEN prev ELSE NoKey
        ELSE LET last == CursorLast(keys)
             IN  IF ~last.none /\ last.f = field THEN last ELSE NoKey

\* mdbx_put (upsert) and mdbx_del on a table held as a function
DbPut(db, key, val) == [k \in DOMAIN db \cup {key} |-> IF k = key THEN val ELSE db[k]]
DbDel(db, key) == [k \in DOMAIN db \ {key} |-> db[k]]

\* add_to_bucket (numeric_index.hpp:411-523): the inverted table afterwards
AddToBucket(inv, field, value, id) ==
    LET found == FindBucketKey(inv, field, value)
        bucket_key == IF found.none THEN BucketKey(field, value) ELSE found
        bucket == BucketAdd(IF found.none THEN <<>> ELSE inv[found], value, id)
    IN  IF BucketIsFull(bucket)
        THEN LET new_bucket == BucketSplitNew(bucket)
                 new_key == BucketKey(field, BucketMinVal(new_bucket))
             IN  DbPut(DbPut(inv, bucket_key, BucketSplitKept(bucket)), new_key, new_bucket)
        ELSE DbPut(inv, bucket_key, bucket)

\* remove_from_bucket (numeric_index.hpp:525-599)
RemoveFromBucket(inv, field, value, id) ==
    LET found == FindBucketKey(inv, field, value)
    IN  IF found.none \/ ~BucketRemoved(inv[found], id) THEN inv
        ELSE IF BucketRemove(inv[found], id) = <<>> THEN DbDel(inv, found)
        ELSE DbPut(inv, found, BucketRemove(inv[found], id))

\* put_internal (numeric_index.hpp:208-233): both tables afterwards
PutInternal(fwd, inv, field, id, value) ==
    LET fk == FwdKey(field, id)
    IN  IF fk \in DOMAIN fwd /\ fwd[fk] = value THEN [fwd |-> fwd, inv |-> inv]
        ELSE LET inv1 == IF fk \in DOMAIN fwd
                         THEN RemoveFromBucket(inv, field, fwd[fk], id) ELSE inv
             IN  [fwd |-> DbPut(fwd, fk, value),
                  inv |-> AddToBucket(inv1, field, value, id)]

\* the ids of a bucket's entries whose value lies in [min_val, max_val]
BucketScan(entries, min_val, max_val) ==
    {entries[i][2] : i \in {j \in 1..Len(entries) :
                               entries[j][1] >= min_val /\ entries[j][1] <= max_val}}

\* range: the key the scan starts at, or NoKey (numeric_index.hpp:273-338)
RangeStartKey(keys, field, min_val) ==
    LET start_key == BucketKey(field, min_val)
        found == CursorSetRange(keys, start_key)
    IN  IF ~found.none
        THEN IF found.f = field
             THEN IF KeyLess(start_key, found)
                  THEN LET prev == CursorPrev(keys, found)
                       IN  IF ~prev.none /\ prev.f = field THEN prev ELSE found
                  ELSE found
             ELSE LET prev == CursorPrev(keys, found)
                  IN  IF ~prev.none /\ prev.f = field THEN prev ELSE NoKey
        ELSE LET last == CursorLast(keys)
             IN  IF ~last.none /\ last.f = field THEN last ELSE NoKey

\* range: the loop over the buckets from a key on (numeric_index.hpp:340-366)
RECURSIVE RangeScanFrom(_, _, _, _, _)
RangeScanFrom(inv, key, field, min_val, max_val) ==
    IF key.none \/ key.f # field \/ key.s > max_val THEN {}
    ELSE BucketScan(inv[key], min_val, max_val)
         \cup RangeScanFrom(inv, CursorNext(DOMAIN inv, key), field, min_val, max_val)

\* range(field, min_val, max_val) (numeric_index.hpp:261-375)
NumericRange(inv, field, min_val, max_val) ==
    RangeScanFrom(inv, RangeStartKey(DOMAIN inv, field, min_val), field, min_val, max_val)

\* check_range(field, id, min_val, max_val) (numeric_index.hpp:378-408)
CheckRange(fwd, field, id, min_val, max_val) ==
    /\ FwdKey(field, id) \in DOMAIN fwd
    /\ fwd[FwdKey(field, id)] >= min_val
    /\ fwd[FwdKey(field, id)] <= max_val

(***************************************************************************)
(* Sortable keys (numeric_index.hpp:18-42), computed on the halves of the  *)
(* 32-bit words.                                                           *)
(***************************************************************************)
RECURSIVE Pow2(_)
Pow2(n) == IF n = 0 THEN 1 ELSE 2 * Pow2(n - 1)

\* static_cast<uint32_t>(i): the halves of the two's complement of i
Int32Halves(i) ==
    IF i >= 0 THEN <<i \div HALF, i % HALF>>
    ELSE <<(HALF - 1) - ((-(i + 1)) \div HALF), (HALF - 1) - ((-(i + 1)) % HALF)>>

\* ^ 0x80000000 flips the top bit of the high half
FlipTop(hi) == (hi + HALF \div 2) % HALF

\* int_to_sortable
IntToSortable(i) ==
    LET w == Int32Halves(i) IN U32Pack(FlipTop(w[1]), w[2])

\* A JSON number holds twice its value in `twice` (the numbers used have at
\* most one binary digit after the point).  The IEEE 754 single of a
\* positive value: exponent e with 2^e <= value < 2^(e+1), 23 mantissa bits.
FloatExp(twice) == CHOOSE e \in -1..22 : Pow2(e + 1) <= twice /\ twice < Pow2(e + 2)

FloatBitsPos(twice) ==
    LET e == FloatExp(twice)
    IN  (e + 127) * Pow2(23) + (twice * Pow2(22 - e) - Pow2(23))

\* the halves of the bit pattern of the float twice/2
FloatHalves(twice) ==
    IF twice = 0 THEN <<0, 0>>
    ELSE IF twice > 0 THEN <<FloatBitsPos(twice) \div HALF, FloatBitsPos(twice) % HALF>>
    ELSE <<(FloatBitsPos(-twice) \div HALF) + HALF \div 2, FloatBitsPos(-twice) % HALF>>

\* float_to_sortable that flips the top bit whatever the sign
float_to_sortable_TopOnly(w) == U32Pack(FlipTop(w[1]), w[2])

\* float_to_sortable on the halves w of the bit pattern of the float:
\* sign bit 0 -> flip the top bit; sign bit 1 -> flip all bits
float_to_sortable(w) ==
    IF w[1] < HALF \div 2 THEN U32Pack(FlipTop(w[1]), w[2])
    ELSE U32Pack((HALF - 1) - w[1], (HALF - 1) - w[2])

\* float_to_sortable(val.get<float>()) of a JSON number
FloatToSortable(twice) == float_to_sortable(FloatHalves(twice))

\* the halves of the uint32 word that is held as s
WordHalves(s) == <<(s \div HALF) + HALF \div 2, s % HALF>>

\* static_cast<int32_t> of the word with halves hi and lo
Int32Of(hi, lo) == IF hi < HALF \div 2 THEN hi * HALF + lo ELSE (hi - HALF) * HALF + lo

\* sortable_to_int: static_cast<int32_t>(i ^ 0x80000000)
sortable_to_int(s) == Int32Of(FlipTop(WordHalves(s)[1]), WordHalves(s)[2])

\* sortable_to_float, as the halves of the bit pattern of the float: the
\* mask is 0x80000000 for a key with the top bit set and 0xFFFFFFFF otherwise
sortable_to_float(s) ==
    LET w == WordHalves(s)
    IN  IF w[1] >= HALF \div 2 THEN <<FlipTop(w[1]), w[2]>>
        ELSE <<(HALF - 1) - w[1], (HALF - 1) - w[2]>>

(***************************************************************************)
(* Filter (filter.hpp) over the BitmapIndex (bitmap_index.hpp) and the     *)
(* NumericIndex.  A JSON value is a record: [t |-> "string", s |-> ...],   *)
(* [t |-> "int", twice |-> 2 * value], [t |-> "float", twice |-> ...] or   *)
(* [t |-> "bool", b |-> ...].                                              *)
(***************************************************************************)
JStr(s) == [t |-> "string", s |-> s]
JInt(i) == [t |-> "int", twice |-> 2 * i]
JFloat(twice) == [t |-> "float", twice |-> twice]
JBool(b) == [t |-> "bool", b |-> b]

\* FieldType, filter.hpp:23-28
FT_Unknown == "Unknown"
FT_String == "String"
FT_Number == "Number"
FT_Bool == "Bool"

IsNumber(v) == v.t \in {"int", "float"}

\* the type a value registers its field with (filter.hpp:444-451)
FieldTypeOf(v) ==
    IF v.t = "bool" THEN FT_Bool
    ELSE IF IsNumber(v) THEN FT_Number
    ELSE IF v.t = "string" THEN FT_String
    ELSE FT_Unknown

\* the sortable key of a JSON number (filter.hpp:466-471):
\* is_number_integer -> int_to_sortable(get<int>), else float_to_sortable(get<float>)
SortableOf(v) ==
    IF v.t = "int" THEN IntToSortable(v.twice \div 2) ELSE FloatToSortable(v.twice)

\* format_filter_key
FormatFilterKey(field, value) == field \o ":" \o value

BoolString(b) == IF b THEN "true" ELSE "false"

\* get_bitmap_internal: the empty bitmap for a key that is absent
GetBitmap(db, key) == IF key \in DOMAIN db THEN db[key] ELSE {}

\* BitmapIndex::add and BitmapIndex::remove: read, change, store
BitmapAdd(db, field, value, id) ==
    DbPut(db, FormatFilterKey(field, value), GetBitmap(db, FormatFilterKey(field, value)) \cup {id})

BitmapRemove(db, field, value, id) ==
    DbPut(db, FormatFilterKey(field, value), GetBitmap(db, FormatFilterKey(field, value)) \ {id})

\* register_field_type that accepts any type for a registered field
RegisterOk_Any(schema, field, type) == TRUE

\* register_field_type (filter.hpp:92-102): whether the type is accepted
RegisterOk(schema, field, type) == field \in DOMAIN schema => schema[field] = type
RegisterSchema(schema, field, type) ==
    IF field \in DOMAIN schema THEN schema ELSE DbPut(schema, field, type)

\* the fields of a JSON object in the order items() visits them
FilterFields == <<"color", "price">>

\* the state with the two tables of the numeric index as put_internal left them
WithNumeric(st, r) == [st EXCEPT !.fwd = r.fwd, !.inv = r.inv]

\* one turn of the loop of add_filters_from_json (filter.hpp:443-476) on the
\* state st = [schema, bitmaps, fwd, inv]
AddField(st, id, field, value) ==
    LET type == FieldTypeOf(value)
    IN  IF type = FT_Unknown \/ ~RegisterOk(st.schema, field, type) THEN st
        ELSE LET st1 == [st EXCEPT !.schema = RegisterSchema(st.schema, field, type)]
             IN  IF value.t = "string"
                 THEN [st1 EXCEPT !.bitmaps = BitmapAdd(st.bitmaps, field, value.s, id)]
                 ELSE IF IsNumber(value)
                 THEN WithNumeric(st1, PutInternal(st.fwd, st.inv, field, id, SortableOf(value)))
                 ELSE [st1 EXCEPT !.bitmaps =
                                     BitmapAdd(st.bitmaps, field, BoolString(value.b), id)]

RECURSIVE AddFields(_, _, _, _)
AddFields(st, id, doc, i) ==
    IF i > Len(FilterFields) THEN st
    ELSE LET field == FilterFields[i]
         IN  AddFields(IF field \in DOMAIN doc THEN AddField(st, id, field, doc[field]) ELSE st,
                       id, doc, i + 1)

\* one turn of the loop of remove_filters_from_json (filter.hpp:485-493)
RemoveField(st, id, field, value) ==
    IF value.t = "string"
    THEN [st EXCEPT !.bitmaps = BitmapRemove(st.bitmaps, field, value.s, id)]
    ELSE IF IsNumber(value)
    THEN LET fk == FwdKey(field, id)
         IN  IF fk \in DOMAIN st.fwd
             THEN [st EXCEPT !.inv = RemoveFromBucket(st.inv, field, st.fwd[fk], id),
                             !.fwd = DbDel(st.fwd, fk)]
             ELSE st
    ELSE IF value.t = "bool"
    THEN [st EXCEPT !.bitmaps = BitmapRemove(st.bitmaps, field, BoolString(value.b), id)]
    ELSE st

RECURSIVE RemoveFields(_, _, _, _)
RemoveFields(st, id, doc, i) ==
    IF i > Len(FilterFields) THEN st
    ELSE LET field == FilterFields[i]
         IN  RemoveFields(IF field \in DOMAIN doc
                          THEN RemoveField(st, id, field, doc[field]) ELSE st,
                          id, doc, i + 1)

\* NumericIndex(env): two empty tables (numeric_index.hpp:175-194)
InitNumeric ==
    /\ num_forward = << >>
    /\ num_inverted = << >>
    /\ num_current = << >>

\* put(field, id, value): one write transaction (numeric_index.hpp:196-206)
NumericPut(field, id, value) ==
    /\ LET r == PutInternal(num_forward, num_inverted, field, id, value)
       IN  /\ num_forward' = r.fwd
           /\ num_inverted' = r.inv
    /\ num_current' = DbPut(num_current, FwdKey(field, id), value)
    /\ UNCHANGED <<mapperVars, walVars, filterVars, bmwVars, sparseVars, codecVars,
                   bitmapCallVars, txnVars, bruteVars>>

\* remove(field, id): one write transaction (numeric_index.hpp:235-259)
NumericRemove(field, id) ==
    /\ LET fk == FwdKey(field, id)
       IN  IF fk \in DOMAIN num_forward
           THEN /\ num_inverted' = RemoveFromBucket(num_inverted, field, num_forward[fk], id)
                /\ num_forward' = DbDel(num_forward, fk)
           ELSE UNCHANGED <<num_forward, num_inverted>>
    /\ num_current' = DbDel(num_current, FwdKey(field, id))
    /\ UNCHANGED <<mapperVars, walVars, filterVars, bmwVars, sparseVars, codecVars,
                   bitmapCallVars, txnVars, bruteVars>>

\* the string a non-numeric field's operand is looked up with (filter.hpp:231-239)
OperandString(v) ==
    IF v.t = "string" THEN v.s
    ELSE IF v.t = "bool" THEN BoolString(v.b)
    ELSE ToString(v.twice \div 2)

Thrown == [throws |-> TRUE, ids |-> {}]
Bitmap(ids) == [throws |-> FALSE, ids |-> ids]

\* the bitmap of one operand of $eq or $in (filter.hpp:217-242, 251-279)
OperandBitmap(type, field, v, skip_empty, bitmaps, inv) ==
    IF type = FT_Number
    THEN IF ~IsNumber(v) THEN Thrown
         ELSE Bitmap(NumericRange(inv, field, SortableOf(v), SortableOf(v)))
    ELSE IF v.t \notin {"string", "int", "bool"} THEN Thrown
         ELSE IF skip_empty /\ OperandString(v) = "" THEN Bitmap({})
         ELSE Bitmap(GetBitmap(bitmaps, FormatFilterKey(field, OperandString(v))))

RECURSIVE InBitmap(_, _, _, _, _, _)
InBitmap(type, field, vals, i, bitmaps, inv) ==
    IF i > Len(vals) THEN Bitmap({})
    ELSE LET one == OperandBitmap(type, field, vals[i], TRUE, bitmaps, inv)
             rest == InBitmap(type, field, vals, i + 1, bitmaps, inv)
         IN  IF one.throws \/ rest.throws THEN Thrown ELSE Bitmap(one.ids \cup rest.ids)

\* the bitmap of one condition [field, op, val] (filter.hpp:190-318)
ConditionBitmap(cond, schema, bitmaps, inv) ==
    LET type == IF cond.field \in DOMAIN schema THEN schema[cond.field] ELSE FT_Unknown
    IN  IF cond.op = "$eq"
        THEN OperandBitmap(type, cond.field, cond.val, FALSE, bitmaps, inv)
        ELSE IF cond.op = "$in"
        THEN InBitmap(type, cond.field, cond.val, 1, bitmaps, inv)
        ELSE IF cond.op = "$range"
        THEN IF type # FT_Number \/ ~IsNumber(cond.val[1]) \/ ~IsNumber(cond.val[2])
             THEN Thrown
             ELSE IF SortableOf(cond.val[1]) > SortableOf(cond.val[2]) THEN Thrown
             ELSE Bitmap(NumericRange(inv, cond.field,
                                      SortableOf(cond.val[1]), SortableOf(cond.val[2])))
        ELSE Thrown

\* computeFilterBitmap with `first` left true: every conjunct is assigned
RECURSIVE ComputeFrom_Assign(_, _, _, _, _, _, _)
ComputeFrom_Assign(filter_array, i, first, acc, schema, bitmaps, inv) ==
    IF i > Len(filter_array) THEN Bitmap(acc)
    ELSE LET or_result == ConditionBitmap(filter_array[i], schema, bitmaps, inv)
         IN  IF or_result.throws THEN Thrown
             ELSE ComputeFrom_Assign(filter_array, i + 1, first, or_result.ids,
                                     schema, bitmaps, inv)

\* computeFilterBitmap (filter.hpp:172-330): the conditions from the i-th on,
\* combined into `acc` with &=
RECURSIVE ComputeFrom(_, _, _, _, _, _, _)
ComputeFrom(filter_array, i, first, acc, schema, bitmaps, inv) ==
    IF i > Len(filter_array) THEN Bitmap(acc)
    ELSE LET or_result == ConditionBitmap(filter_array[i], schema, bitmaps, inv)
         IN  IF or_result.throws THEN Thrown
             ELSE ComputeFrom(filter_array, i + 1, FALSE,
                              IF first THEN or_result.ids ELSE acc \cap or_result.ids,
                              schema, bitmaps, inv)

\* computeFilterBitmap that rejects an empty filter array
computeFilterBitmap_NonEmpty(filter_array) ==
    IF filter_array = <<>> THEN Thrown
    ELSE ComputeFrom(filter_array, 1, TRUE, {}, schema_cache, bitmap_db, num_inverted)

\* an empty array returns the empty bitmap before the loop (filter.hpp:177-180)
computeFilterBitmap(filter_array) ==
    IF filter_array = <<>> THEN Bitmap({})
    ELSE ComputeFrom(filter_array, 1, TRUE, {}, schema_cache, bitmap_db, num_inverted)

\* Filter(path) on an empty directory (filter.hpp:104-164)
InitFilter ==
    /\ schema_cache = << >>
    /\ bitmap_db = << >>
    /\ filter_docs = << >>

\* the schema, the bitmaps and the numeric index as the Filter holds them
FilterState ==
    [schema |-> schema_cache, bitmaps |-> bitmap_db,
     fwd |-> num_forward, inv |-> num_inverted]

\* the bitmaps and the numeric index take what the loop left
FilterStored(st) ==
    /\ bitmap_db' = st.bitmaps
    /\ num_forward' = st.fwd
    /\ num_inverted' = st.inv
    /\ num_current' = st.fwd

\* an insertion also registers the types of the fields it met
FilterAdded(st) == schema_cache' = st.schema /\ FilterStored(st)

\* add_filters_from_json(numeric_id, filter_json) for a document that is not
\* ingested (filter.hpp:440-480)
AddFiltersFromJson(id, doc) ==
    /\ id \notin DOMAIN filter_docs
    /\ FilterAdded(AddFields(FilterState, id, doc, 1))
    /\ filter_docs' = DbPut(filter_docs, id, doc)
    /\ UNCHANGED <<mapperVars, walVars, bmwVars, sparseVars, codecVars,
                   bitmapCallVars, txnVars, bruteVars>>

\* add_filters_from_json_batch(id_filter_pairs) (filter.hpp:365-429): the
\* numbers are put pair by pair; the ids of every string or bool key are
\* added to its bitmap after the loop, which leaves the bitmaps that adding
\* them pair by pair leaves
RECURSIVE AddPairs(_, _, _)
AddPairs(st, pairs, i) ==
    IF i > Len(pairs) THEN st
    ELSE AddPairs(AddFields(st, pairs[i][1], pairs[i][2], 1), pairs, i + 1)

AddFiltersFromJsonBatch(pairs) ==
    /\ pairs # <<>>
    /\ \A i \in 1..Len(pairs) : pairs[i][1] \notin DOMAIN filter_docs
    /\ \A i, j \in 1..Len(pairs) : i # j => pairs[i][1] # pairs[j][1]
    /\ FilterAdded(AddPairs(FilterState, pairs, 1))
    /\ filter_docs' = [id \in DOMAIN filter_docs \cup {pairs[i][1] : i \in 1..Len(pairs)} |->
                          IF \E i \in 1..Len(pairs) : pairs[i][1] = id
                          THEN pairs[CHOOSE i \in 1..Len(pairs) : pairs[i][1] = id][2]
                          ELSE filter_docs[id]]
    /\ UNCHANGED <<mapperVars, walVars, bmwVars, sparseVars, codecVars,
                   bitmapCallVars, txnVars, bruteVars>>

\* remove_filters_from_json(numeric_id, filter_json) with the JSON the
\* document was ingested with (filter.hpp:482-498)
RemoveFiltersFromJson(id) ==
    /\ id \in DOMAIN filter_docs
    /\ FilterStored(RemoveFields(FilterState, id, filter_docs[id], 1))
    /\ filter_docs' = DbDel(filter_docs, id)
    /\ UNCHANGED schema_cache
    /\ UNCHANGED <<mapperVars, walVars, bmwVars, sparseVars, codecVars,
                   bitmapCallVars, txnVars, bruteVars>>

(***************************************************************************)
(* BMWIndex (sparse/bmw.hpp)                                               *)
(*                                                                         *)
(* Sparse values are whole numbers here.  quantize truncates as the cast   *)
(* to uint8 does; the division of dequantize leaves no remainder on any    *)
(* value the model stores (DequantizeExact), so no rounding is added.      *)
(***************************************************************************)
\* MAX_BLOCK_SIZE and SPLIT_THRESHOLD, scaled down from 128 and 160
MAX_BLOCK_SIZE == 2
SPLIT_THRESHOLD == 3

\* the largest quantized value (uint8)
QuantMax == 255
\* a doc_diff of DiffLimit16 or more does not fit a 16-bit block
DiffLimit16 == 65536
\* removeFromBlock's safety heuristic
RemoveDiffLimit == 200000
\* BlockHeader::version written by saveBlock
BLOCK_VERSION == 3

BlockIdx(start, max_val) == [start_doc_id |-> start, block_max_value |-> max_val]

BlockEntry(diff, val) == [doc_diff |-> diff, value |-> val]

\* the least position of S, or none when S is empty
FirstOf(S, none) == IF S = {} THEN none ELSE CHOOSE i \in S : \A j \in S : i <= j

Clamp(scaled) == IF scaled > QuantMax THEN QuantMax ELSE scaled

quantize(val, max_val) ==
    IF max_val <= 0 THEN 0 ELSE Clamp((val * QuantMax) \div max_val)

dequantize(val, max_val) == (val * max_val) \div QuantMax

InsertAt(s, i, e) == SubSeq(s, 1, i - 1) \o <<e>> \o SubSeq(s, i, Len(s))

\* term_blocks_index_[term_id]: the term's block list, empty for a new term
BlocksOf(index, term_id) == IF term_id \in DOMAIN index THEN index[term_id] ELSE <<>>

\* std::upper_bound over the block list: the first block that starts after
\* doc_id, Len(blocks) + 1 (end) when there is none
UpperBoundBlock(blocks, from, doc_id) ==
    FirstOf({i \in from..Len(blocks) : doc_id < blocks[i].start_doc_id}, Len(blocks) + 1)

\* the block before the upper bound, the first block when there is none
findBlockIterator(blocks, doc_id) == Max(1, UpperBoundBlock(blocks, 1, doc_id) - 1)

\* std::lower_bound over the entries of a block, by doc_diff
LowerBoundEntry(entries, doc_diff) ==
    FirstOf({i \in 1..Len(entries) : entries[i].doc_diff >= doc_diff}, Len(entries) + 1)

RECURSIVE MaxValue(_)
MaxValue(entries) ==
    IF entries = <<>> THEN 0 ELSE Max(entries[1].value, MaxValue(Tail(entries)))

RECURSIVE MaxDiff(_)
MaxDiff(entries) ==
    IF entries = <<>> THEN 0 ELSE Max(entries[1].doc_diff, MaxDiff(Tail(entries)))

LiveCount(entries) == Cardinality({i \in 1..Len(entries) : entries[i].value > 0})

\* the header saveBlock recomputes from the entries
SavedHeader(entries, max_val) ==
    [version         |-> BLOCK_VERSION,
     diff_bits       |-> IF MaxDiff(entries) < DiffLimit16 THEN 16 ELSE 32,
     n               |-> Len(entries),
     live_count      |-> LiveCount(entries),
     block_max_value |-> max_val]

\* the stored block: the header and the entries quantized against max_val
SavedBlock(entries, max_val) ==
    [header  |-> SavedHeader(entries, max_val),
     entries |-> [i \in 1..Len(entries) |->
                     BlockEntry(entries[i].doc_diff, quantize(entries[i].value, max_val))]]

saveBlock(db, term_id, start_doc_id, entries) ==
    DbPut(db, <<term_id, start_doc_id>>, SavedBlock(entries, MaxValue(entries)))

\* the entries of a stored block, dequantized against the header's maximum
LoadedEntries(block) ==
    IF block.header.version # BLOCK_VERSION
    THEN [i \in 1..block.header.n |-> BlockEntry(0, 0)]
    ELSE [i \in 1..block.header.n |->
             BlockEntry(block.entries[i].doc_diff,
                        dequantize(block.entries[i].value, block.header.block_max_value))]

loadBlock(db, term_id, start_doc_id) ==
    IF <<term_id, start_doc_id>> \notin DOMAIN db THEN <<>>
    ELSE LoadedEntries(db[<<term_id, start_doc_id>>])

\* the result of a step of a write transaction: the block lists, the
\* term_blocks table as the transaction sees it, and the bool returned
BmwState(index, db, ok) == [index |-> index, db |-> db, ok |-> ok]

\* the second half of a split, its doc_diffs rebased on the first of them
Rebased(entries, split_idx) ==
    [i \in 1..(Len(entries) - split_idx) |->
        BlockEntry(entries[split_idx + i].doc_diff - entries[split_idx + 1].doc_diff,
                   entries[split_idx + i].value)]

\* splitBlock once the halves are cut: the first keeps the block's key, the
\* second is stored under new_start_doc_id and listed after the first
SplitHalves(st, term_id, block_it, new_start_doc_id, first_half, second_half) ==
    BmwState(
        DbPut(st.index, term_id,
              InsertAt([st.index[term_id] EXCEPT
                            ![block_it].block_max_value = MaxValue(first_half)],
                       block_it + 1,
                       BlockIdx(new_start_doc_id, MaxValue(second_half)))),
        saveBlock(saveBlock(st.db, term_id, st.index[term_id][block_it].start_doc_id,
                            first_half),
                  term_id, new_start_doc_id, second_half),
        TRUE)

\* splitBlock after findBlockIterator and loadBlock
SplitLoaded(st, term_id, start_doc_id, block_it, entries) ==
    IF \/ block_it > Len(BlocksOf(st.index, term_id))
       \/ st.index[term_id][block_it].start_doc_id # start_doc_id
    THEN BmwState(DbPut(st.index, term_id, BlocksOf(st.index, term_id)), st.db, FALSE)
    ELSE IF Len(entries) <= MAX_BLOCK_SIZE
    THEN BmwState(DbPut(st.index, term_id, BlocksOf(st.index, term_id)), st.db, TRUE)
    ELSE SplitHalves(st, term_id, block_it,
                     start_doc_id + entries[Len(entries) \div 2 + 1].doc_diff,
                     SubSeq(entries, 1, Len(entries) \div 2),
                     Rebased(entries, Len(entries) \div 2))

splitBlock(st, term_id, start_doc_id) ==
    SplitLoaded(st, term_id, start_doc_id,
                findBlockIterator(BlocksOf(st.index, term_id), start_doc_id),
                loadBlock(st.db, term_id, start_doc_id))

\* the block list with the maximum of the block raised, never lowered
RaisedMax(blocks, block_it, header_max) ==
    IF header_max > blocks[block_it].block_max_value
    THEN [blocks EXCEPT ![block_it].block_max_value = header_max]
    ELSE blocks

\* addToBlock saving the block whatever its size, the split forgotten
AddEntries_NoSplit(st, term_id, block_it, block_entries) ==
    BmwState(
        DbPut(st.index, term_id,
              RaisedMax(st.index[term_id], block_it, MaxValue(block_entries))),
        saveBlock(st.db, term_id, st.index[term_id][block_it].start_doc_id,
                  block_entries),
        TRUE)

\* addToBlock once the entries are updated in memory: over SPLIT_THRESHOLD
\* it returns what splitBlock returns, otherwise it saves the block
AddEntries(st, term_id, block_it, block_entries) ==
    IF Len(block_entries) > SPLIT_THRESHOLD
    THEN splitBlock(st, term_id, st.index[term_id][block_it].start_doc_id)
    ELSE BmwState(
             DbPut(st.index, term_id,
                   RaisedMax(st.index[term_id], block_it, MaxValue(block_entries))),
             saveBlock(st.db, term_id, st.index[term_id][block_it].start_doc_id,
                       block_entries),
             TRUE)

\* the entries with the value of doc_diff set: updated at entry_it when the
\* entry is there, inserted at entry_it when it is not
WithEntry(loaded, entry_it, doc_diff, value) ==
    IF entry_it <= Len(loaded) /\ loaded[entry_it].doc_diff = doc_diff
    THEN [loaded EXCEPT ![entry_it].value = value]
    ELSE InsertAt(loaded, entry_it, BlockEntry(doc_diff, value))

\* addToBlock into the existing block block_it, loaded from the table
AddToLoaded(st, term_id, block_it, doc_diff, value, loaded) ==
    AddEntries(st, term_id, block_it,
               WithEntry(loaded, LowerBoundEntry(loaded, doc_diff), doc_diff, value))

\* addToBlock's new block, listed at insert_it
AddNewBlock(st, term_id, doc_id, value, insert_it) ==
    BmwState(DbPut(st.index, term_id,
                   InsertAt(BlocksOf(st.index, term_id), insert_it, BlockIdx(doc_id, value))),
             saveBlock(st.db, term_id, doc_id, <<BlockEntry(0, value)>>),
             TRUE)

\* addToBlock listing the block a gap forces before the block it follows
AddAtBlock_GapBefore(st, term_id, doc_id, value, blocks, block_it) ==
    IF block_it > Len(blocks) \/ blocks[block_it].start_doc_id > doc_id
    THEN AddNewBlock(st, term_id, doc_id, value, block_it)
    ELSE IF doc_id - blocks[block_it].start_doc_id >= DiffLimit16
    THEN AddNewBlock(st, term_id, doc_id, value, block_it)
    ELSE AddToLoaded(st, term_id, block_it, doc_id - blocks[block_it].start_doc_id, value,
                     loadBlock(st.db, term_id, blocks[block_it].start_doc_id))

\* addToBlock after findBlockIterator
AddAtBlock(st, term_id, doc_id, value, blocks, block_it) ==
    IF block_it > Len(blocks) \/ blocks[block_it].start_doc_id > doc_id
    THEN AddNewBlock(st, term_id, doc_id, value, block_it)
    ELSE IF doc_id - blocks[block_it].start_doc_id >= DiffLimit16
    THEN AddNewBlock(st, term_id, doc_id, value, block_it + 1)
    ELSE AddToLoaded(st, term_id, block_it, doc_id - blocks[block_it].start_doc_id, value,
                     loadBlock(st.db, term_id, blocks[block_it].start_doc_id))

addToBlock(st, term_id, doc_id, value) ==
    AddAtBlock(st, term_id, doc_id, value, BlocksOf(st.index, term_id),
               findBlockIterator(BlocksOf(st.index, term_id), doc_id))

\* removeFromBlock once the entry is looked up: its value becomes the
\* tombstone 0 and the block is saved
RemoveEntry(st, term_id, start_doc_id, doc_diff, loaded, entry_it) ==
    IF entry_it <= Len(loaded) /\ loaded[entry_it].doc_diff = doc_diff
    THEN BmwState(st.index,
                  saveBlock(st.db, term_id, start_doc_id,
                            [loaded EXCEPT ![entry_it].value = 0]),
                  TRUE)
    ELSE BmwState(st.index, st.db, FALSE)

RemoveFromLoaded(st, term_id, start_doc_id, doc_diff, loaded) ==
    RemoveEntry(st, term_id, start_doc_id, doc_diff, loaded,
                LowerBoundEntry(loaded, doc_diff))

\* removeFromBlock after findBlockIterator
RemoveAtBlock(st, term_id, doc_id, blocks, block_it) ==
    IF block_it > Len(blocks) \/ blocks[block_it].start_doc_id > doc_id
    THEN BmwState(st.index, st.db, FALSE)
    ELSE IF doc_id - blocks[block_it].start_doc_id > RemoveDiffLimit
    THEN BmwState(st.index, st.db, FALSE)
    ELSE RemoveFromLoaded(st, term_id, blocks[block_it].start_doc_id,
                          doc_id - blocks[block_it].start_doc_id,
                          loadBlock(st.db, term_id, blocks[block_it].start_doc_id))

removeFromBlock(st, term_id, doc_id) ==
    IF term_id \notin DOMAIN st.index THEN BmwState(st.index, st.db, FALSE)
    ELSE RemoveAtBlock(st, term_id, doc_id, st.index[term_id],
                       findBlockIterator(st.index[term_id], doc_id))

\* removeFromBlock for every term of vec; a false return is ignored
RECURSIVE removeDocumentInternal(_, _, _)
removeDocumentInternal(st, doc_id, indices) ==
    IF indices = <<>> THEN BmwState(st.index, st.db, TRUE)
    ELSE removeDocumentInternal(removeFromBlock(st, Head(indices), doc_id),
                                doc_id, Tail(indices))

SparseVector(indices, values) == [indices |-> indices, values |-> values]

\* the (doc_id, value) pairs one document of the batch gives the term
DocUpdates(doc_id, vec, at) == [k \in 1..Len(at) |-> <<doc_id, vec.values[at[k]]>>]

\* term_updates[term_id]: the (doc_id, value) pairs of the batch for the term
RECURSIVE TermUpdates(_, _)
TermUpdates(docs, term_id) ==
    IF docs = <<>> THEN <<>>
    ELSE DocUpdates(docs[1][1], docs[1][2],
                    SelectIdx(docs[1][2].indices, LAMBDA t : t = term_id, 1))
         \o TermUpdates(Tail(docs), term_id)

PairLess(a, b) == a[1] < b[1] \/ (a[1] = b[1] /\ a[2] < b[2])

\* the sequence without its element at position i
WithoutAt(s, i) == SubSeq(s, 1, i - 1) \o SubSeq(s, i + 1, Len(s))

\* the first position of a least pair
LeastUpdate(updates) ==
    CHOOSE i \in 1..Len(updates) :
        \A j \in 1..Len(updates) :
            ~PairLess(updates[j], updates[i]) /\ (updates[j] = updates[i] => i <= j)

\* std::sort of the pairs
RECURSIVE SortUpdates(_)
RECURSIVE SortUpdatesFrom(_, _)
SortUpdates(updates) ==
    IF updates = <<>> THEN <<>> ELSE SortUpdatesFrom(updates, LeastUpdate(updates))

SortUpdatesFrom(updates, least) ==
    <<updates[least]>> \o SortUpdates(WithoutAt(updates, least))

\* the loop of addDocumentsBatchInternal over the sorted updates of a term:
\* it stops at the first addToBlock that returns false
RECURSIVE ApplyUpdates(_, _, _)
RECURSIVE ApplyRest(_, _, _)
ApplyUpdates(st, term_id, updates) ==
    IF updates = <<>> THEN st
    ELSE ApplyRest(addToBlock(st, term_id, updates[1][1], updates[1][2]),
                   term_id, Tail(updates))

ApplyRest(r, term_id, rest) == IF ~r.ok THEN r ELSE ApplyUpdates(r, term_id, rest)

saveTermIndex(index_db, index, term_id) ==
    IF term_id \notin DOMAIN index THEN index_db ELSE DbPut(index_db, term_id, index[term_id])

\* the terms of a batch; the order in which the unordered_map hands them out
\* does not matter, a term's updates touch that term's blocks alone
RECURSIVE BatchTermSet(_)
BatchTermSet(docs) ==
    IF docs = <<>> THEN {}
    ELSE {docs[1][2].indices[i] : i \in 1..Len(docs[1][2].indices)} \cup BatchTermSet(Tail(docs))

RECURSIVE SortedTerms(_)
RECURSIVE SortedTermsFrom(_, _)
SortedTerms(S) ==
    IF S = {} THEN <<>> ELSE SortedTermsFrom(S, CHOOSE t \in S : \A u \in S : t <= u)

SortedTermsFrom(S, least) == <<least>> \o SortedTerms(S \ {least})

\* the loop of addDocumentsBatchInternal over the terms: saveTermIndex after
\* the updates of a term, return false at the first term that fails
RECURSIVE ProcessTerms(_, _, _, _)
RECURSIVE TermDone(_, _, _, _)
ProcessTerms(st, index_db, terms, docs) ==
    IF terms = <<>> THEN [index |-> st.index, db |-> st.db, index_db |-> index_db, ok |-> TRUE]
    ELSE TermDone(ApplyUpdates(st, terms[1], SortUpdates(TermUpdates(docs, terms[1]))),
                  index_db, terms, docs)

TermDone(r, index_db, terms, docs) ==
    IF ~r.ok
    THEN [index |-> r.index, db |-> r.db, index_db |-> index_db, ok |-> FALSE]
    ELSE ProcessTerms(r, saveTermIndex(index_db, r.index, terms[1]), Tail(terms), docs)

addDocumentsBatchInternal(st, index_db, docs) ==
    ProcessTerms(st, index_db, SortedTerms(BatchTermSet(docs)), docs)

\* std::numeric_limits<ndd::idInt>::max(), the doc id of an exhausted
\* iterator; the largest integer of the model checker stands for 2^32 - 1
IdIntMax == 2^30 + (2^30 - 1)

\* the BlockView of a stored block: its quantized entries and diff width
getReadOnlyBlock(db, term_id, start_doc_id) ==
    IF <<term_id, start_doc_id>> \notin DOMAIN db THEN [entries |-> <<>>, diff_bits |-> 0]
    ELSE [entries   |-> db[<<term_id, start_doc_id>>].entries,
          diff_bits |-> db[<<term_id, start_doc_id>>].header.diff_bits]

\* findNextLiveSIMD: the first position from start_idx on that holds a
\* non-zero value, the position after the last entry when there is none
findNextLive(values, start_idx) ==
    FirstOf({i \in start_idx..Len(values) : values[i].value # 0},
            Max(start_idx, Len(values) + 1))

\* findEntryIndexSIMD16 / findEntryIndexSIMD32: the first position from
\* start_idx on whose doc_diff is at least target_diff
findEntryIndex(entries, start_idx, target_diff) ==
    FirstOf({i \in start_idx..Len(entries) : entries[i].doc_diff >= target_diff},
            Max(start_idx, Len(entries) + 1))

\* BlockIterator; positions count from 1, so current_block_idx > Len(blocks)
\* is the source's current_block_idx >= blocks->size()
RECURSIVE loadCurrentBlock(_, _, _)
RECURSIVE LoadView(_, _, _, _)
RECURSIVE advanceToNextLive(_, _, _)
RECURSIVE MoveToLive(_, _, _, _)
loadCurrentBlock(it, index, db) ==
    IF it.current_block_idx > Len(index[it.term_id])
    THEN [it EXCEPT !.current_doc_id = IdIntMax]
    ELSE LoadView(it, index, db,
                  getReadOnlyBlock(db, it.term_id,
                                   index[it.term_id][it.current_block_idx].start_doc_id))

\* loadCurrentBlock once the view of the block is fetched
LoadView(it, index, db, view) ==
    advanceToNextLive([it EXCEPT !.view = view.entries,
                                 !.diff_bits = view.diff_bits,
                                 !.current_entry_idx = 1],
                      index, db)

advanceToNextLive(it, index, db) ==
    MoveToLive(it, index, db, findNextLive(it.view, it.current_entry_idx))

\* advanceToNextLive once the next live position of the block is found: the
\* iterator rests on it, or moves to the next block when there is none
MoveToLive(it, index, db, live) ==
    IF live <= Len(it.view)
    THEN [it EXCEPT !.current_entry_idx = live,
                    !.current_doc_id =
                        index[it.term_id][it.current_block_idx].start_doc_id
                        + it.view[live].doc_diff,
                    !.current_score =
                        dequantize(it.view[live].value,
                                   index[it.term_id][it.current_block_idx].block_max_value)]
    ELSE loadCurrentBlock([it EXCEPT !.current_entry_idx = live,
                                     !.current_block_idx = @ + 1],
                          index, db)

\* the iterator as the constructor leaves it before it loads a block
FreshIterator(tid, weight) ==
    [term_id |-> tid, term_weight |-> weight, current_block_idx |-> 1,
     view |-> <<>>, diff_bits |-> 32, current_entry_idx |-> 1,
     current_doc_id |-> IdIntMax, current_score |-> 0]

BlockIterator(tid, weight, index, db) ==
    IF index[tid] # <<>>
    THEN loadCurrentBlock(FreshIterator(tid, weight), index, db)
    ELSE FreshIterator(tid, weight)

\* next() without the step past the current entry
IteratorNext_Stay(it, index, db) == advanceToNextLive(it, index, db)

IteratorNext(it, index, db) ==
    advanceToNextLive([it EXCEPT !.current_entry_idx = @ + 1], index, db)

\* advance's block skip: taken when the next block starts before the target
SkipsBlocks(it, target_doc_id, blocks) ==
    /\ it.current_block_idx <= Len(blocks)
    /\ it.current_block_idx + 1 <= Len(blocks)
    /\ blocks[it.current_block_idx + 1].start_doc_id < target_doc_id

\* the iterator moved to the block before next_idx, its view dropped
SkippedTo(it, next_idx) ==
    IF next_idx > 1
    THEN [it EXCEPT !.current_block_idx = next_idx - 1,
                    !.current_entry_idx = 1,
                    !.view = <<>>]
    ELSE it

\* advance16 and advanceGeneric: the same steps, apart from the 16-bit
\* guard on the diff and the dispatch on the width of the loaded block
RECURSIVE advance(_, _, _, _)
RECURSIVE AdvanceSkipped(_, _, _, _, _)
RECURSIVE AdvanceLoaded(_, _, _, _, _, _)
advance(it, target_doc_id, index, db) ==
    IF it.current_doc_id >= target_doc_id THEN it
    ELSE AdvanceSkipped(it, target_doc_id, index, db,
                        IF SkipsBlocks(it, target_doc_id, index[it.term_id])
                        THEN SkippedTo(it, UpperBoundBlock(index[it.term_id],
                                                           it.current_block_idx,
                                                           target_doc_id))
                        ELSE it)

\* advance after the block skip: a dropped view is loaded again
AdvanceSkipped(it, target_doc_id, index, db, skipped) ==
    AdvanceLoaded(it, target_doc_id, index, db, Len(skipped.view) = 0,
                  IF Len(skipped.view) = 0
                  THEN loadCurrentBlock(skipped, index, db)
                  ELSE skipped)

\* the entry the search inside the block starts from
TargetEntry(loaded, diff) ==
    IF loaded.diff_bits = 16 /\ diff >= DiffLimit16
    THEN Len(loaded.view) + 1
    ELSE findEntryIndex(loaded.view, loaded.current_entry_idx, diff)

\* advance inside the loaded block
AdvanceLoaded(it, target_doc_id, index, db, reload, loaded) ==
    IF reload /\ ((it.diff_bits = 16) # (loaded.diff_bits = 16))
    THEN advance(loaded, target_doc_id, index, db)
    ELSE IF loaded.current_block_idx > Len(index[it.term_id]) THEN loaded
    ELSE IF target_doc_id > index[it.term_id][loaded.current_block_idx].start_doc_id
    THEN advanceToNextLive(
             [loaded EXCEPT !.current_entry_idx =
                  TargetEntry(loaded,
                              target_doc_id
                              - index[it.term_id][loaded.current_block_idx].start_doc_id)],
             index, db)
    ELSE loaded

upperBound(it, index) ==
    IF it.current_block_idx > Len(index[it.term_id]) THEN 0
    ELSE it.term_weight * index[it.term_id][it.current_block_idx].block_max_value

\* the first position of an iterator with the least current_doc_id
FirstIterator(its) ==
    CHOOSE i \in 1..Len(its) :
        \A j \in 1..Len(its) :
            /\ its[i].current_doc_id <= its[j].current_doc_id
            /\ (its[i].current_doc_id = its[j].current_doc_id => i <= j)

\* sort_iterators: by current_doc_id; iterators on the same document keep
\* their order
RECURSIVE SortIterators(_)
RECURSIVE SortIteratorsFrom(_, _)
SortIterators(its) ==
    IF its = <<>> THEN <<>> ELSE SortIteratorsFrom(its, FirstIterator(its))

SortIteratorsFrom(its, first) == <<its[first]>> \o SortIterators(WithoutAt(its, first))

\* pops the exhausted iterators off the back
RECURSIVE DropExhausted(_)
DropExhausted(its) ==
    IF its # <<>> /\ its[Len(its)].current_doc_id = IdIntMax
    THEN DropExhausted(SubSeq(its, 1, Len(its) - 1))
    ELSE its

RECURSIVE UpperBoundSum(_, _, _)
UpperBoundSum(its, i, index) ==
    IF i = 0 THEN 0 ELSE UpperBoundSum(its, i - 1, index) + upperBound(its[i], index)

\* the pivot: the first position whose running sum of upper bounds exceeds
\* the threshold, 0 when no position does (found_pivot is false)
PivotIdx(its, threshold, index) ==
    FirstOf({i \in 1..Len(its) : UpperBoundSum(its, i, index) > threshold}, 0)

BMWCandidate(id, s) == [doc_id |-> id, score |-> s]

\* top_k is a min-heap on the score: the sequence holds it lowest score first
HeapPush(top_k, cand) ==
    InsertAt(top_k, Cardinality({i \in 1..Len(top_k) : top_k[i].score <= cand.score}) + 1,
             cand)

HeapPop(top_k) == Tail(top_k)

\* an iterator advanced to the pivot steps past it when it rests on it
PastPivot(moved, pivot_doc_id, index, db) ==
    IF moved.current_doc_id = pivot_doc_id THEN IteratorNext(moved, index, db) ELSE moved

\* the iterators after the candidate pivot_doc_id has been scored
ScoredIterators(its, pivot_doc_id, index, db) ==
    [i \in 1..Len(its) |->
        IF i = 1 THEN IteratorNext(its[1], index, db)
        ELSE PastPivot(advance(its[i], pivot_doc_id, index, db), pivot_doc_id, index, db)]

\* what an iterator advanced to the pivot adds to the candidate's score
TermScore(moved, pivot_doc_id) ==
    IF moved.current_doc_id = pivot_doc_id
    THEN moved.current_score * moved.term_weight
    ELSE 0

RECURSIVE CandidateScore(_, _, _, _, _)
CandidateScore(its, i, pivot_doc_id, index, db) ==
    IF i > Len(its) THEN 0
    ELSE TermScore(advance(its[i], pivot_doc_id, index, db), pivot_doc_id)
         + CandidateScore(its, i + 1, pivot_doc_id, index, db)

\* the iterators before the pivot advanced to the pivot's document
AdvancedToPivot(its, pivot_idx, pivot_doc_id, index, db) ==
    [i \in 1..Len(its) |->
        IF i < pivot_idx THEN advance(its[i], pivot_doc_id, index, db) ELSE its[i]]

\* the while(true) loop of search: returns top_k
RECURSIVE SearchLoop(_, _, _, _, _, _)
RECURSIVE SearchPivot(_, _, _, _, _, _, _)
RECURSIVE SearchScored(_, _, _, _, _, _, _)
RECURSIVE SearchPushed(_, _, _, _, _, _)
SearchLoop(sorted, top_k, threshold, k, index, db) ==
    IF DropExhausted(sorted) = <<>> THEN top_k
    ELSE SearchPivot(DropExhausted(sorted),
                     PivotIdx(DropExhausted(sorted), threshold, index),
                     top_k, threshold, k, index, db)

\* one round of the loop on the live iterators, the pivot chosen
SearchPivot(iterators, pivot_idx, top_k, threshold, k, index, db) ==
    IF pivot_idx = 0 THEN top_k
    ELSE IF iterators[1].current_doc_id = iterators[pivot_idx].current_doc_id
    THEN SearchScored(
             SortIterators(ScoredIterators(iterators, iterators[pivot_idx].current_doc_id,
                                           index, db)),
             BMWCandidate(iterators[pivot_idx].current_doc_id,
                          CandidateScore(iterators, 1, iterators[pivot_idx].current_doc_id,
                                         index, db)),
             top_k, threshold, k, index, db)
    ELSE SearchLoop(
             SortIterators(AdvancedToPivot(iterators, pivot_idx,
                                           iterators[pivot_idx].current_doc_id, index, db)),
             top_k, threshold, k, index, db)

\* the candidate scored: pushed while top_k holds fewer than k, put in the
\* place of the lowest when it beats the threshold, dropped otherwise
SearchScored(after, cand, top_k, threshold, k, index, db) ==
    IF Len(top_k) < k
    THEN SearchPushed(after, HeapPush(top_k, cand), threshold, k, index, db)
    ELSE IF cand.score > threshold
    THEN SearchPushed(after, HeapPush(HeapPop(top_k), cand), threshold, k, index, db)
    ELSE SearchLoop(after, top_k, threshold, k, index, db)

\* the threshold becomes the lowest score of top_k once top_k holds k
SearchPushed(after, top_k, threshold, k, index, db) ==
    SearchLoop(after, top_k, IF Len(top_k) = k THEN top_k[1].score ELSE threshold,
               k, index, db)

\* the iterators of the known terms of the query
KnownIterators(query, known, index, db) ==
    [i \in 1..Len(known) |->
        BlockIterator(query.indices[known[i]], query.values[known[i]], index, db)]

\* the iterators of the query terms that have a block list
QueryIterators(query, index, db) ==
    KnownIterators(query, SelectIdx(query.indices, LAMBDA t : t \in DOMAIN index, 1),
                   index, db)

\* top_k as search returns it: <<doc_id, score>> pairs, best first
SearchResults(top_k) ==
    [i \in 1..Len(top_k) |->
        <<top_k[Len(top_k) + 1 - i].doc_id, top_k[Len(top_k) + 1 - i].score>>]

\* search after the iterators are built
SearchWith(iterators, k, index, db) ==
    IF iterators = <<>> THEN <<>>
    ELSE SearchResults(SearchLoop(SortIterators(iterators), <<>>, 0, k, index, db))

\* search(query, k): the <<doc_id, score>> pairs, best first
search(index, db, query, k) ==
    IF query.indices = <<>> \/ k = 0 THEN <<>>
    ELSE SearchWith(QueryIterators(query, index, db), k, index, db)

InitBmw ==
    /\ term_blocks_index = <<>>
    /\ term_blocks = <<>>
    /\ term_blocks_index_db = <<>>

\* the end of a write transaction that added documents: committed when the
\* batch succeeded, aborted otherwise, which leaves the tables alone but not
\* the block lists
CommitAdded(r) ==
    /\ term_blocks_index' = r.index
    /\ term_blocks' = IF r.ok THEN r.db ELSE term_blocks
    /\ term_blocks_index_db' = IF r.ok THEN r.index_db ELSE term_blocks_index_db
    /\ UNCHANGED <<mapperVars, walVars, numericVars, filterVars, sparseVars, codecVars,
                   bitmapCallVars, txnVars, bruteVars>>

\* addDocument / addDocumentsBatch(docs): one write transaction
AddDocumentsBatch(docs) ==
    /\ docs # <<>>
    /\ CommitAdded(addDocumentsBatchInternal(
                       BmwState(term_blocks_index, term_blocks, TRUE),
                       term_blocks_index_db, docs))

\* removeDocument(doc_id, vec)
RemoveDocument(doc_id, vec) ==
    /\ term_blocks' = removeDocumentInternal(BmwState(term_blocks_index, term_blocks, TRUE),
                                             doc_id, vec.indices).db
    /\ UNCHANGED <<term_blocks_index, term_blocks_index_db>>
    /\ UNCHANGED <<mapperVars, walVars, numericVars, filterVars, sparseVars, codecVars,
                   bitmapCallVars, txnVars, bruteVars>>

\* updateDocument(doc_id, old_vec, new_vec): the removal and the insertion
\* in one write transaction
UpdateDocument(doc_id, old_vec, new_vec) ==
    CommitAdded(addDocumentsBatchInternal(
                    removeDocumentInternal(BmwState(term_blocks_index, term_blocks, TRUE),
                                           doc_id, old_vec.indices),
                    term_blocks_index_db, <<<<doc_id, new_vec>>>>))

(***************************************************************************)
(* SparseVectorStorage: sparse_storage.hpp, sparse_vector.hpp              *)
(*                                                                         *)
(* A float is the pair <<hi, lo>> of the 16-bit halves of its bit pattern; *)
(* a half-precision value is its 16-bit pattern.                           *)
(***************************************************************************)
\* 0x7c00: the exponent field of a half-precision infinity
Fp16Inf == 31744

\* the fields of the float w: u.i >> 31, (u.i >> 23) & 0xff, (u.i >> 13) & 0x3ff
FloatSign(w) == w[1] \div 32768
FloatExpField(w) == (w[1] \div 128) % 256
FloatFrac10(w) == ((w[1] % 128) * 8) + (w[2] \div 8192)

\* uint32_t exp = ((u.i >> 23) & 0xff) - 127 + 15, as the halves of the
\* uint32: below 112 the subtraction wraps around 2^32
HalfExpWord(w) ==
    IF FloatExpField(w) >= 112 THEN <<0, FloatExpField(w) - 112>>
    ELSE <<65535, (65536 + FloatExpField(w)) - 112>>

\* float_to_fp16 with the exponent as a signed int
float_to_fp16_Signed(w) ==
    (FloatSign(w) * 32768)
    + (IF FloatExpField(w) <= 112 THEN 0
       ELSE IF FloatExpField(w) - 112 >= 31 THEN Fp16Inf
       ELSE ((FloatExpField(w) - 112) * 1024) + FloatFrac10(w))

\* float_to_fp16 (sparse_vector.hpp:180-198): exp <= 0 holds for exp = 0
\* only, and a wrapped exp is >= 31
float_to_fp16(w) ==
    LET exp == HalfExpWord(w)
    IN  (FloatSign(w) * 32768)
        + (IF exp = <<0, 0>> THEN 0
           ELSE IF exp[1] > 0 \/ exp[2] >= 31 THEN Fp16Inf
           ELSE (exp[2] * 1024) + FloatFrac10(w))

\* the float with the fields sign, exp and frac << 13
FloatOfFields(sign, exp, frac) ==
    <<(sign * 32768) + (exp * 128) + (frac \div 8), (frac % 8) * 8192>>

\* the number of turns of the loop that shifts the fraction of a
\* denormalized half until bit 0x400 is set
DenormShifts(frac) == CHOOSE k \in 1..10 : frac * Pow2(k) >= 1024 /\ frac * Pow2(k - 1) < 1024

\* fp16_to_float (sparse_vector.hpp:200-232)
fp16_to_float(h) ==
    LET sign == h \div 32768
        exp == (h \div 1024) % 32
        frac == h % 1024
    IN  IF exp = 0
        THEN IF frac = 0 THEN FloatOfFields(sign, 0, 0)
             ELSE FloatOfFields(sign, 103 - DenormShifts(frac),
                                (frac * Pow2(DenormShifts(frac))) % 1024)
        ELSE IF exp = 31 THEN FloatOfFields(sign, 255, frac)
        ELSE FloatOfFields(sign, exp + 112, frac)

\* SparseVector::pack: nnz in 16 bits, the term ids, the values as halves
pack(vec) ==
    [nnz |-> Len(vec.indices) % 65536,
     indices |-> vec.indices,
     fp16_values |-> [i \in 1..Len(vec.values) |-> float_to_fp16(vec.values[i])]]

\* SparseVector(packed): the constructor from packed data
unpack(packed) ==
    SparseVector(packed.indices,
                 [i \in 1..packed.nnz |-> fp16_to_float(packed.fp16_values[i])])

\* the vector of whole values as the floats it holds
FloatValues(vec) ==
    SparseVector(vec.indices, [i \in 1..Len(vec.values) |-> FloatHalves(2 * vec.values[i])])

\* the three tables, the block lists in memory and the count
Snapshot(docs, db, index_db, index, count) ==
    [docs |-> docs, db |-> db, index_db |-> index_db, index |-> index, count |-> count]
NoSnapshot == Snapshot(<<>>, <<>>, <<>>, <<>>, 0)
CurrentSnapshot ==
    Snapshot(sparse_docs, term_blocks, term_blocks_index_db, term_blocks_index,
             vector_count)

\* a write transaction: the tables as it sees them, what its commit adds to
\* the count, and the state its write started from
SparseTxn(status, view, count_add, before) ==
    [status |-> status, view |-> view, count_add |-> count_add, before |-> before]

InitSparse ==
    /\ sparse_docs = <<>>
    /\ vector_count = 0
    /\ sparse_txn = SparseTxn("none", NoSnapshot, 0, NoSnapshot)

\* storeVectorInternal for each pair of a batch, in the transaction's view
RECURSIVE StoredDocs(_, _, _)
StoredDocs(docs, batch, i) ==
    IF i > Len(batch) THEN docs
    ELSE StoredDocs(DbPut(docs, batch[i][1], pack(FloatValues(batch[i][2]))), batch, i + 1)

\* txn->abort() and return false: the tables keep their contents
Aborted(index, count, before) ==
    /\ term_blocks_index' = index
    /\ vector_count' = count
    /\ sparse_txn' = SparseTxn("failed", NoSnapshot, 0, before)
    /\ UNCHANGED <<sparse_docs, term_blocks, term_blocks_index_db>>
    /\ UNCHANGED <<mapperVars, walVars, numericVars, filterVars, codecVars,
                   bitmapCallVars, txnVars, bruteVars>>

\* the write reached txn->commit(): the transaction holds the new tables, the
\* block lists in memory are already the new ones
Written(docs, r, count, count_add, before) ==
    /\ term_blocks_index' = r.index
    /\ vector_count' = count
    /\ sparse_txn' = SparseTxn("open", Snapshot(docs, r.db, r.index_db, r.index, count),
                               count_add, before)
    /\ UNCHANGED <<sparse_docs, term_blocks, term_blocks_index_db>>
    /\ UNCHANGED <<mapperVars, walVars, numericVars, filterVars, codecVars,
                   bitmapCallVars, txnVars, bruteVars>>

\* the end of a write whose index update returned r
AfterIndexed(docs, r, count, count_add, before) ==
    IF r.ok THEN Written(docs, r, count, count_add, before)
    ELSE Aborted(r.index, before.count, before)

\* the index update of a write, after the block lists st were prepared
Indexed(st, docs, batch, count, count_add, before) ==
    AfterIndexed(docs, addDocumentsBatchInternal(st, before.index_db, batch),
                 count, count_add, before)

\* store_vector(doc_id, vec) up to its commit; put_ok is whether mdbx_put of
\* storeVectorInternal succeeds
StoreVector(doc_id, vec, put_ok) ==
    /\ sparse_txn.status # "open"
    /\ vector_count < MaxVectorCount
    /\ IF put_ok
       THEN Indexed(BmwState(term_blocks_index, term_blocks, TRUE),
                    DbPut(sparse_docs, doc_id, pack(FloatValues(vec))), <<<<doc_id, vec>>>>,
                    vector_count + 1, 0, CurrentSnapshot)
       ELSE Aborted(term_blocks_index, vector_count, CurrentSnapshot)

\* store_vectors_batch(batch) up to its commit
StoreVectorsBatch(batch, put_ok) ==
    /\ sparse_txn.status # "open"
    /\ vector_count + Len(batch) <= MaxVectorCount
    /\ IF put_ok
       THEN Indexed(BmwState(term_blocks_index, term_blocks, TRUE),
                    StoredDocs(sparse_docs, batch, 1), batch,
                    vector_count, Len(batch), CurrentSnapshot)
       ELSE Aborted(term_blocks_index, vector_count, CurrentSnapshot)

\* the removal of the old vector that opens update_vector
OldRemoved(doc_id) ==
    IF doc_id \in DOMAIN sparse_docs
    THEN removeDocumentInternal(BmwState(term_blocks_index, term_blocks, TRUE),
                                doc_id, unpack(sparse_docs[doc_id]).indices)
    ELSE BmwState(term_blocks_index, term_blocks, TRUE)

\* update_vector(doc_id, vec) up to its commit
UpdateVector(doc_id, vec, put_ok) ==
    /\ sparse_txn.status # "open"
    /\ IF put_ok
       THEN Indexed(OldRemoved(doc_id), DbPut(sparse_docs, doc_id, pack(FloatValues(vec))),
                    <<<<doc_id, vec>>>>, vector_count, 0, CurrentSnapshot)
       ELSE Aborted(OldRemoved(doc_id).index, vector_count, CurrentSnapshot)

\* delete_vector(doc_id) after the removal from the index gave st; del_ok is
\* whether mdbx_del of deleteVectorInternal succeeds
Deleted(st, doc_id, del_ok, before) ==
    IF del_ok
    THEN Written(DbDel(before.docs, doc_id),
                 [ok |-> TRUE, index |-> st.index, db |-> st.db,
                  index_db |-> before.index_db],
                 before.count - 1, 0, before)
    ELSE Aborted(st.index, before.count, before)

\* delete_vector(doc_id) up to its commit
DeleteVector(doc_id, del_ok) ==
    /\ sparse_txn.status # "open"
    /\ vector_count + MaxUnderflow > 0
    /\ IF doc_id \in DOMAIN sparse_docs
       THEN Deleted(removeDocumentInternal(
                        BmwState(term_blocks_index, term_blocks, TRUE),
                        doc_id, unpack(sparse_docs[doc_id]).indices),
                    doc_id, del_ok, CurrentSnapshot)
       ELSE Aborted(term_blocks_index, vector_count, CurrentSnapshot)

\* Transaction::commit of the open write; commit_ok is whether
\* mdbx_txn_commit succeeds
CommitTxn(commit_ok) ==
    /\ sparse_txn.status = "open"
    /\ IF commit_ok
       THEN /\ sparse_docs' = sparse_txn.view.docs
            /\ term_blocks' = sparse_txn.view.db
            /\ term_blocks_index_db' = sparse_txn.view.index_db
            /\ vector_count' = vector_count + sparse_txn.count_add
            /\ sparse_txn' = SparseTxn("committed", NoSnapshot, 0, NoSnapshot)
       ELSE /\ sparse_txn' = SparseTxn("failed", NoSnapshot, 0, sparse_txn.before)
            /\ UNCHANGED <<sparse_docs, term_blocks, term_blocks_index_db, vector_count>>
    /\ UNCHANGED term_blocks_index
    /\ UNCHANGED <<mapperVars, walVars, numericVars, filterVars, codecVars,
                   bitmapCallVars, txnVars, bruteVars>>


(***************************************************************************)
(* Calls of the conversions on their own                                   *)
(***************************************************************************)
NoSortableCall ==
    [kind |-> "none", a |-> 0, b |-> 0, key_a |-> 0, key_b |-> 0, back_a |-> 0, back_b |-> 0]

NoPackCall ==
    [vec |-> SparseVector(<<>>, <<>>), packed |-> <<>>, unpacked |-> SparseVector(<<>>, <<>>)]

InitCodec ==
    /\ sortable_call = NoSortableCall
    /\ pack_call = NoPackCall

\* int_to_sortable(a), int_to_sortable(b) and sortable_to_int of the two keys
SortableInts(a, b) ==
    /\ sortable_call' =
           [kind |-> "int", a |-> a, b |-> b,
            key_a |-> IntToSortable(a), key_b |-> IntToSortable(b),
            back_a |-> sortable_to_int(IntToSortable(a)),
            back_b |-> sortable_to_int(IntToSortable(b))]
    /\ UNCHANGED <<mapperVars, walVars, numericVars, filterVars, bmwVars, sparseVars, pack_call,
                   bitmapCallVars, txnVars, bruteVars>>

\* float_to_sortable and sortable_to_float on the floats with the bit
\* patterns a and b
SortableFloats(a, b) ==
    /\ sortable_call' =
           [kind |-> "float", a |-> a, b |-> b,
            key_a |-> float_to_sortable(a), key_b |-> float_to_sortable(b),
            back_a |-> sortable_to_float(float_to_sortable(a)),
            back_b |-> sortable_to_float(float_to_sortable(b))]
    /\ UNCHANGED <<mapperVars, walVars, numericVars, filterVars, bmwVars, sparseVars, pack_call,
                   bitmapCallVars, txnVars, bruteVars>>

\* vec.pack() and SparseVector(packed) on the bytes
PackVector(vec) ==
    /\ Len(vec.indices) = Len(vec.values)
    /\ pack_call' = [vec |-> vec, packed |-> pack(vec), unpacked |-> unpack(pack(vec))]
    /\ UNCHANGED <<mapperVars, walVars, numericVars, filterVars, bmwVars, sparseVars,
                   sortable_call, bitmapCallVars, txnVars, bruteVars>>

(***************************************************************************)
(* BitmapIndex under concurrent callers: bitmap_index.hpp                  *)
(*                                                                         *)
(* add, add_batch_by_key and remove read the bitmap in a read-only         *)
(* transaction (get_bitmap_internal), change the copy they hold, and store *)
(* it in a write transaction of its own (store_bitmap_internal); BitmapIndex *)
(* holds no lock.  A call is two steps: the read with the change of the    *)
(* copy, and the store.                                                    *)
(***************************************************************************)
IdleBitmapCall == [pc |-> "idle", op |-> "none", key |-> "", ids |-> {}, bitmap |-> {}]

InitBitmapCalls ==
    /\ bitmap_call = [t \in Threads |-> IdleBitmapCall]
    /\ bitmap_added = << >>

\* the copy of the bitmap after the call changed it
ChangedBitmap(op, bitmap, ids) == IF op = "remove" THEN bitmap \ ids ELSE bitmap \cup ids

\* add / add_batch_by_key / remove up to the end of get_bitmap_internal and
\* the change of the copy (bitmap_index.hpp:133-135, 140-142, 170-173);
\* add_batch_by_key returns at once on an empty list of ids
BitmapRead(t, op, key, ids) ==
    /\ bitmap_call[t].pc \in {"idle", "done"}
    /\ bitmap_call' =
           [bitmap_call EXCEPT ![t] =
               IF op = "add_batch_by_key" /\ ids = {}
               THEN [IdleBitmapCall EXCEPT !.pc = "done", !.op = op, !.key = key]
               ELSE [pc |-> "store", op |-> op, key |-> key, ids |-> ids,
                     bitmap |-> ChangedBitmap(op, GetBitmap(bitmap_db, key), ids)]]
    /\ UNCHANGED <<bitmap_db, schema_cache, filter_docs, bitmap_added>>
    /\ UNCHANGED <<mapperVars, walVars, numericVars, bmwVars, sparseVars, codecVars, txnVars,
                   bruteVars>>

\* store_bitmap_internal: the copy is written over the stored bitmap
\* (bitmap_index.hpp:64-101), and the call returns
BitmapStore(t) ==
    /\ bitmap_call[t].pc = "store"
    /\ bitmap_db' = DbPut(bitmap_db, bitmap_call[t].key, bitmap_call[t].bitmap)
    /\ bitmap_added' =
           DbPut(bitmap_added, bitmap_call[t].key,
                 ChangedBitmap(bitmap_call[t].op, GetBitmap(bitmap_added, bitmap_call[t].key),
                               bitmap_call[t].ids))
    /\ bitmap_call' = [bitmap_call EXCEPT ![t].pc = "done"]
    /\ UNCHANGED <<schema_cache, filter_docs>>
    /\ UNCHANGED <<mapperVars, walVars, numericVars, bmwVars, sparseVars, codecVars, txnVars,
                   bruteVars>>

(***************************************************************************)
(* SparseVectorStorage::Transaction held by a caller:                      *)
(* sparse_storage.hpp:42-137                                               *)
(*                                                                         *)
(* txn_ is "live" from mdbx_txn_begin to mdbx_txn_commit or mdbx_txn_abort; *)
(* a commit that fails leaves it "failed".  The caller does not call       *)
(* commit() or abort() on a transaction whose commit has failed.           *)
(***************************************************************************)
TxnObject(alive, committed, txn, view, result, applied) ==
    [alive |-> alive, committed_ |-> committed, txn_ |-> txn, view |-> view,
     result |-> result, applied |-> applied]

NoTxnObject == TxnObject(FALSE, FALSE, "none", NoSnapshot, "none", FALSE)

InitTxn == txn_obj = NoTxnObject

\* Transaction(storage): a write transaction on the tables as they are
\* (sparse_storage.hpp:45-56)
TxnBegin ==
    /\ ~txn_obj.alive
    /\ txn_obj' = TxnObject(TRUE, FALSE, "live", CurrentSnapshot, "none", FALSE)
    /\ UNCHANGED <<mapperVars, walVars, numericVars, filterVars, bmwVars, sparseVars,
                   codecVars, bitmapCallVars, bruteVars>>

\* Transaction::store_vector once the index update returned r: the puts stay
\* in the transaction, the count grows when the update succeeded
TxnStored(docs, r) ==
    /\ txn_obj' = [txn_obj EXCEPT !.view =
                       Snapshot(docs, r.db, r.index_db, r.index,
                                IF r.ok THEN vector_count + 1 ELSE vector_count)]
    /\ term_blocks_index' = r.index
    /\ vector_count' = IF r.ok THEN vector_count + 1 ELSE vector_count
    /\ UNCHANGED <<sparse_docs, sparse_txn, term_blocks, term_blocks_index_db>>
    /\ UNCHANGED <<mapperVars, walVars, numericVars, filterVars, codecVars, bitmapCallVars,
                   bruteVars>>

\* Transaction::store_vector(doc_id, vec) (sparse_storage.hpp:85-105)
TxnStoreVector(doc_id, vec) ==
    /\ txn_obj.alive /\ txn_obj.txn_ = "live"
    /\ vector_count < MaxVectorCount
    /\ TxnStored(DbPut(txn_obj.view.docs, doc_id, pack(FloatValues(vec))),
                 addDocumentsBatchInternal(
                     BmwState(term_blocks_index, txn_obj.view.db, TRUE),
                     txn_obj.view.index_db, <<<<doc_id, vec>>>>))

\* Transaction::commit() (sparse_storage.hpp:64-74); commit_ok is whether
\* mdbx_txn_commit succeeds
TxnCommit(commit_ok) ==
    /\ txn_obj.alive
    /\ txn_obj.committed_ \/ txn_obj.txn_ = "live"
    /\ IF txn_obj.committed_
       THEN /\ txn_obj' = [txn_obj EXCEPT !.result = "true"]
            /\ UNCHANGED <<sparse_docs, term_blocks, term_blocks_index_db>>
       ELSE IF commit_ok
       THEN /\ sparse_docs' = txn_obj.view.docs
            /\ term_blocks' = txn_obj.view.db
            /\ term_blocks_index_db' = txn_obj.view.index_db
            /\ txn_obj' = TxnObject(TRUE, TRUE, "committed", NoSnapshot, "true", TRUE)
       ELSE /\ txn_obj' = [txn_obj EXCEPT !.txn_ = "failed", !.view = NoSnapshot,
                                          !.result = "false"]
            /\ UNCHANGED <<sparse_docs, term_blocks, term_blocks_index_db>>
    /\ UNCHANGED <<term_blocks_index, vector_count, sparse_txn>>
    /\ UNCHANGED <<mapperVars, walVars, numericVars, filterVars, codecVars, bitmapCallVars,
                   bruteVars>>

\* Transaction::abort() on a transaction that is not closed
\* (sparse_storage.hpp:76-81)
TxnAbort ==
    /\ txn_obj.alive
    /\ ~txn_obj.committed_ /\ txn_obj.txn_ = "live"
    /\ txn_obj' = [txn_obj EXCEPT !.txn_ = "aborted", !.view = NoSnapshot,
                                  !.committed_ = TRUE]
    /\ UNCHANGED <<mapperVars, walVars, numericVars, filterVars, bmwVars, sparseVars,
                   codecVars, bitmapCallVars, bruteVars>>

\* ~Transaction(): aborts what was not committed (sparse_storage.hpp:58-62)
TxnEnd ==
    /\ txn_obj.alive
    /\ txn_obj' = NoTxnObject
    /\ UNCHANGED <<mapperVars, walVars, numericVars, filterVars, bmwVars, sparseVars,
                   codecVars, bitmapCallVars, bruteVars>>

(***************************************************************************)
(* BruteforceSearch: bruteforce.h                                          *)
(*                                                                         *)
(* A point is one coordinate and the distance is the squared difference.   *)
(* Slot i of data_ holds a point and its label; the slots from             *)
(* cur_element_count on keep what was last copied into them.               *)
(***************************************************************************)
Slots == 0..(MaxElements - 1)
Labels == 1..MaxElements
Points == 0..MaxPoint

Element(label, point) == [label |-> label, point |-> point]

\* BruteforceSearch(s, maxElements) (bruteforce.h:41-53)
InitBruteforce ==
    /\ data_ = [i \in Slots |-> Element(0, 0)]
    /\ cur_element_count = 0
    /\ dict_external_to_internal = << >>
    /\ bf_undefined = FALSE

\* dict_external_to_internal[label] = idx
DictPut(dict, label, idx) ==
    [l \in DOMAIN dict \cup {label} |-> IF l = label THEN idx ELSE dict[l]]

\* dict_external_to_internal.erase(found)
DictErase(dict, label) == [l \in DOMAIN dict \ {label} |-> dict[l]]

\* addPoint(datapoint, label) (bruteforce.h:57-77); a call on a full index
\* with a new label throws and changes nothing
AddPoint(datapoint, label) ==
    /\ ~bf_undefined
    /\ IF label \in DOMAIN dict_external_to_internal
       THEN /\ data_' = [data_ EXCEPT ![dict_external_to_internal[label]] =
                             Element(label, datapoint)]
            /\ UNCHANGED <<cur_element_count, dict_external_to_internal>>
       ELSE /\ cur_element_count < MaxElements
            /\ data_' = [data_ EXCEPT ![cur_element_count] = Element(label, datapoint)]
            /\ dict_external_to_internal' =
                   DictPut(dict_external_to_internal, label, cur_element_count)
            /\ cur_element_count' = cur_element_count + 1
    /\ UNCHANGED bf_undefined
    /\ UNCHANGED <<mapperVars, walVars, numericVars, filterVars, bmwVars, sparseVars,
                   codecVars, bitmapCallVars, txnVars>>

\* What removePoint does once found->second was read as cur_c
\* (bruteforce.h:89-96)
RemoveAt(cur_external, cur_c) ==
    /\ dict_external_to_internal' =
           DictPut(DictErase(dict_external_to_internal, cur_external),
                   data_[cur_element_count - 1].label, cur_c)
    /\ data_' = [data_ EXCEPT ![cur_c] = data_[cur_element_count - 1]]
    /\ cur_element_count' = cur_element_count - 1
    /\ UNCHANGED bf_undefined

\* removePoint(cur_external) of a label the dictionary holds
\* (bruteforce.h:79-97).  found->second is read after erase(found): the read
\* gives the erased entry's slot or whatever the freed node holds by then.
\* A slot outside data_, also the last slot when no element is stored, leaves
\* the index undefined.
RemovePoint(cur_external) ==
    /\ ~bf_undefined
    /\ cur_external \in DOMAIN dict_external_to_internal
    /\ \/ /\ cur_element_count > 0
          /\ \E cur_c \in Slots : RemoveAt(cur_external, cur_c)
       \/ /\ bf_undefined' = TRUE
          /\ UNCHANGED <<data_, cur_element_count, dict_external_to_internal>>
    /\ UNCHANGED <<mapperVars, walVars, numericVars, filterVars, bmwVars, sparseVars,
                   codecVars, bitmapCallVars, txnVars>>

\* fstdistfunc_(query_data, point)
Dist(query, point) == (point - query) * (point - query)

\* A std::pair<dist_t, label> in the queue, with the slot it was read from
Found(query, i) ==
    [dist |-> Dist(query, data_[i].point), label |-> data_[i].label, slot |-> i]

\* operator< of std::pair<dist_t, label>
FoundLess(a, b) == a.dist < b.dist \/ (a.dist = b.dist /\ a.label < b.label)

\* topResults.top(): a largest pair
Top(topResults) ==
    CHOOSE a \in topResults : \A b \in topResults : ~FoundLess(a, b)

\* The first loop of searchKnn: the allowed ones of the first k slots
\* (bruteforce.h:106-113)
FirstK(query, k, allowed) ==
    {Found(query, i) : i \in {j \in 0..(k - 1) : data_[j].label \in allowed}}

\* One slot of the second loop (bruteforce.h:117-131)
SecondStep(query, k, allowed, i, st) ==
    IF Dist(query, data_[i].point) <= st.lastdist
    THEN LET pushed == IF data_[i].label \in allowed
                       THEN st.topResults \cup {Found(query, i)}
                       ELSE st.topResults
             popped == IF Cardinality(pushed) > k THEN pushed \ {Top(pushed)}
                       ELSE pushed
         IN  [topResults |-> popped,
              lastdist |-> IF popped # {} THEN Top(popped).dist ELSE st.lastdist]
    ELSE st

RECURSIVE SecondLoop(_, _, _, _, _)
SecondLoop(query, k, allowed, i, st) ==
    IF i >= cur_element_count THEN st.topResults
    ELSE SecondLoop(query, k, allowed, i + 1, SecondStep(query, k, allowed, i, st))

\* searchKnn(query_data, k, isIdAllowed) with k <= cur_element_count
\* (bruteforce.h:99-134); a call without a filter allows every label
searchKnn(query, k, allowed) ==
    IF cur_element_count = 0 THEN {}
    ELSE LET first == FirstK(query, k, allowed)
         IN  SecondLoop(query, k, allowed, k,
                        [topResults |-> first,
                         lastdist |-> IF first = {} THEN DistMax
                                      ELSE Top(first).dist])

Init == InitMapper /\ InitWal /\ InitNumeric /\ InitFilter /\ InitBmw /\ InitSparse /\ InitCodec
        /\ InitBitmapCalls /\ InitTxn /\ InitBruteforce

\* One thread drives the mapper without a WAL (wal_ptr = nullptr, the default
\* argument of create_ids_batch).
MainThread == "t1"

NextMapper ==
    \/ \E str_ids \in SeqsOf(ExtIds, 0, MaxBatch), use_deleted \in BOOLEAN :
            CallCreateIdsBatch(MainThread, str_ids, use_deleted, FALSE)
    \/ GetDeletedStep(MainThread)
    \/ GetNextIdsStep(MainThread)
    \/ WriteStep(MainThread)
    \/ \E external_ids \in SeqsOf(ExtIds, 1, MaxBatch) : DeletePoints(external_ids)
    \/ \E failed_id \in 1..(next_id - 1) : ReclaimFailedIds(<<failed_id>>)

SpecMapper == Init /\ [][NextMapper]_vars

\* Every thread calls create_ids_batch, with or without reuse, concurrently.
NextMapperConc ==
    \/ \E t \in Threads, str_ids \in SeqsOf(ExtIds, 0, MaxBatch), use_deleted \in BOOLEAN :
            CallCreateIdsBatch(t, str_ids, use_deleted, FALSE)
    \/ \E t \in Threads : GetDeletedStep(t)
    \/ \E t \in Threads : GetNextIdsStep(t)
    \/ \E t \in Threads : WriteStep(t)

SpecMapperConc == Init /\ [][NextMapperConc]_vars

\* One thread drives the mapper and passes the index's WAL to every call.
NextMapperWal ==
    \/ \E str_ids \in SeqsOf(ExtIds, 0, MaxBatch), use_deleted \in BOOLEAN :
            CallCreateIdsBatch(MainThread, str_ids, use_deleted, TRUE)
    \/ GetDeletedStep(MainThread)
    \/ GetNextIdsStep(MainThread)
    \/ WalLogStep(MainThread)
    \/ WriteStep(MainThread)
    \/ \E external_id \in ExtIds : DeletePoints(<<external_id>>)
    \/ WalClear
    \/ WalDisable
    \/ WalEnable

SpecMapperWal == Init /\ [][NextMapperWal]_vars

\* One thread creates ids, with and without reuse and with and without the
\* WAL, and deletes points between its calls; the process may crash after
\* any step.
NextMapperCrash ==
    \/ \E str_ids \in SeqsOf(ExtIds, 1, MaxBatch), use_deleted \in BOOLEAN, wal_ptr \in BOOLEAN :
            CallCreateIdsBatch(MainThread, str_ids, use_deleted, wal_ptr)
    \/ GetDeletedStep(MainThread)
    \/ GetNextIdsStep(MainThread)
    \/ WalLogStep(MainThread)
    \/ WriteStep(MainThread)
    \/ \E external_id \in ExtIds :
            call[MainThread].pc \in {"idle", "done"} /\ DeletePoints(<<external_id>>)
    \/ Crash

SpecMapperCrash == Init /\ [][NextMapperCrash]_vars

\* One thread creates ids, with and without reuse, and deletes points; the
\* write transaction of a call may fail.
NextMapperFail ==
    \/ \E str_ids \in SeqsOf(ExtIds, 1, MaxBatch), use_deleted \in BOOLEAN :
            CallCreateIdsBatch(MainThread, str_ids, use_deleted, FALSE)
    \/ GetDeletedStep(MainThread)
    \/ GetNextIdsStep(MainThread)
    \/ WriteStep(MainThread)
    \/ WriteFailStep(MainThread)
    \/ \E external_id \in ExtIds :
            call[MainThread].pc \in {"idle", "done", "thrown"} /\ DeletePoints(<<external_id>>)

SpecMapperFail == Init /\ [][NextMapperFail]_vars

(***************************************************************************)
(* The WAL on its own: entries of every kind are logged, the file is       *)
(* cleared, and a crash cuts bytes off its tail.                           *)
(***************************************************************************)
WalOps == {VECTOR_ADD, VECTOR_DELETE, VECTOR_UPDATE}
\* ids whose little-endian image has one and two non-zero bytes
WalIds == {1, 258}
WalEntrySet == [op_type : WalOps, numeric_id : WalIds]

\* log(entries) on a file of whole records (wal.hpp:60-79)
WalLog(entries) ==
    /\ Len(wal_file) % RecordBytes = 0
    /\ WalRecords + Len(entries) <= MaxWalRecords
    /\ wal_file' = WalLogFile(wal_file, wal_enabled, entries)
    /\ wal_entry_count' = WalLogCount(wal_entry_count, wal_enabled, entries)
    /\ wal_logged' = IF wal_enabled THEN wal_logged \o entries ELSE wal_logged
    /\ UNCHANGED wal_enabled
    /\ UNCHANGED mapperVars
    /\ UNCHANGED indexVars

\* a crash leaves the file without its last n bytes and the process restarts:
\* WriteAheadLog(index_dir) on the file that is left (wal.hpp:31-51).
\* wal_logged keeps the entries whose records are still whole.
WalTruncate(n) ==
    /\ n \in 1..Len(wal_file)
    /\ wal_file' = SubSeq(wal_file, 1, Len(wal_file) - n)
    /\ wal_logged' = SubSeq(wal_logged, 1, (Len(wal_file) - n) \div RecordBytes)
    /\ wal_enabled' = TRUE
    /\ wal_entry_count' = IF Len(wal_file) - n > 0 THEN 1 ELSE 0
    /\ UNCHANGED mapperVars
    /\ UNCHANGED indexVars

NextWal ==
    \/ \E entries \in SeqsOf(WalEntrySet, 1, MaxBatch) : WalLog(entries)
    \/ \E n \in 1..(RecordBytes - 1) : WalTruncate(n)
    \/ WalClear
    \/ WalDisable
    \/ WalEnable

SpecWal == Init /\ [][NextWal]_vars

\* put and remove on the numeric index
NextNumeric ==
    \/ \E i \in 1..Len(NumFields), id \in NumIds, value \in NumValues :
            NumericPut(NumFields[i], id, value)
    \/ \E i \in 1..Len(NumFields), id \in NumIds : NumericRemove(NumFields[i], id)

SpecNumeric == Init /\ [][NextNumeric]_vars

\* the documents and the queries handed to the filter
FilterIds == {1, 2}
\* a field comes with values of more than one JSON type, and a string may be
\* empty
ColorValues == {JStr("red"), JStr(""), JBool(TRUE)}
PriceValues == {JInt(10), JInt(11), JFloat(21), JStr("10")}
FilterDocs ==
    {[f \in {"color"} |-> c] : c \in ColorValues}
    \cup {[f \in {"price"} |-> p] : p \in PriceValues}
    \cup {[f \in {"color", "price"} |-> IF f = "color" THEN c ELSE p] :
             c \in ColorValues, p \in PriceValues}

NextFilter ==
    \/ \E id \in FilterIds, doc \in FilterDocs : AddFiltersFromJson(id, doc)
    \/ \E d1, d2 \in FilterDocs : AddFiltersFromJsonBatch(<<<<1, d1>>, <<2, d2>>>>)
    \/ \E id \in FilterIds : RemoveFiltersFromJson(id)

SpecFilter == Init /\ [][NextFilter]_vars

\* The sparse index over two terms.  Documents 1..MaxDocId: the last one
\* carries term 30, alone or next to term 10; the one before it carries a
\* high value of term 10; the others carry the low value of term 10.
BmwTerms == {10, 30}
BmwDocIds == 1..MaxDocId
VectorsOf(doc_id) ==
    IF doc_id = MaxDocId
    THEN {SparseVector(<<30>>, <<1>>), SparseVector(<<10, 30>>, <<1, 1>>)}
    ELSE IF doc_id = MaxDocId - 1
    THEN {SparseVector(<<10>>, <<5>>), SparseVector(<<10>>, <<1280>>)}
    ELSE {SparseVector(<<10>>, <<1>>)}
BmwDocs == UNION {{<<d, v>> : v \in VectorsOf(d)} : d \in BmwDocIds}
BmwBatches == SeqsOf(BmwDocs, 1, MaxBmwBatch)

NextBmw ==
    \/ \E docs \in BmwBatches : AddDocumentsBatch(docs)
    \/ \E doc_id \in BmwDocIds : \E vec \in VectorsOf(doc_id) : RemoveDocument(doc_id, vec)
    \/ \E doc_id \in BmwDocIds : \E old_vec, new_vec \in VectorsOf(doc_id) :
           UpdateDocument(doc_id, old_vec, new_vec)

SpecBmw == Init /\ [][NextBmw]_vars

\* The sparse index over documents more than a 16-bit doc_diff apart: one
\* at the start of the id space and MaxDocId of them from DiffLimit16 + 1
\* on, so that a document can be too far from the block that precedes it.
FarDocIds == {1} \cup {DiffLimit16 + d : d \in 1..MaxDocId}
FarVectorsOf(doc_id) ==
    IF doc_id = DiffLimit16 + 2
    THEN {SparseVector(<<10>>, <<1>>), SparseVector(<<10>>, <<5>>)}
    ELSE {SparseVector(<<10>>, <<1>>)}
FarDocs == UNION {{<<d, v>> : v \in FarVectorsOf(d)} : d \in FarDocIds}
FarBatches == SeqsOf(FarDocs, 1, MaxBmwBatch)

NextBmwFar ==
    \/ \E docs \in FarBatches : AddDocumentsBatch(docs)
    \/ \E doc_id \in FarDocIds : \E vec \in FarVectorsOf(doc_id) : RemoveDocument(doc_id, vec)
    \/ \E doc_id \in FarDocIds : \E old_vec, new_vec \in FarVectorsOf(doc_id) :
           UpdateDocument(doc_id, old_vec, new_vec)

SpecBmwFar == Init /\ [][NextBmwFar]_vars

\* Every thread calls add, add_batch_by_key and remove on the bitmap index.
BitmapKeys == {FormatFilterKey("color", "red"), FormatFilterKey("color", "")}
BitmapIds == 1..MaxBatch
NextBitmapConc ==
    \/ \E t \in Threads, key \in BitmapKeys, id \in BitmapIds :
           BitmapRead(t, "add", key, {id})
    \/ \E t \in Threads, key \in BitmapKeys, ids \in SUBSET BitmapIds :
           BitmapRead(t, "add_batch_by_key", key, ids)
    \/ \E t \in Threads, key \in BitmapKeys, id \in BitmapIds :
           BitmapRead(t, "remove", key, {id})
    \/ \E t \in Threads : BitmapStore(t)

SpecBitmapConc == Init /\ [][NextBitmapConc]_vars

\* The sparse storage: every write runs up to its commit, then commits or
\* fails to; the mdbx calls of the storage itself may fail.
SparseDocIds == 2..MaxDocId
SparseBatches ==
    {<<p>> : p \in {q \in BmwDocs : q[1] \in SparseDocIds}}
        \cup {<<p, q>> : p \in {a \in BmwDocs : a[1] = MaxDocId - 1},
                          q \in {b \in BmwDocs : b[1] = MaxDocId}}

NextSparse ==
    \/ \E doc_id \in SparseDocIds : \E vec \in VectorsOf(doc_id), put_ok \in BOOLEAN :
           StoreVector(doc_id, vec, put_ok)
    \/ \E batch \in SparseBatches, put_ok \in BOOLEAN : StoreVectorsBatch(batch, put_ok)
    \/ \E doc_id \in SparseDocIds : \E vec \in VectorsOf(doc_id), put_ok \in BOOLEAN :
           UpdateVector(doc_id, vec, put_ok)
    \/ \E doc_id \in SparseDocIds, del_ok \in BOOLEAN : DeleteVector(doc_id, del_ok)
    \/ \E commit_ok \in BOOLEAN : CommitTxn(commit_ok)

SpecSparse == Init /\ [][NextSparse]_vars

\* One caller holds a Transaction at a time and stores vectors through it.
TxnDocs == {p \in BmwDocs : p[1] \in SparseDocIds}
NextTxn ==
    \/ TxnBegin
    \/ \E p \in TxnDocs : TxnStoreVector(p[1], p[2])
    \/ \E commit_ok \in BOOLEAN : TxnCommit(commit_ok)
    \/ TxnAbort
    \/ TxnEnd

SpecTxn == Init /\ [][NextTxn]_vars

\* A caller adds and removes points of a BruteforceSearch.
NextBruteforce ==
    \/ \E label \in Labels, datapoint \in Points : AddPoint(datapoint, label)
    \/ \E label \in Labels : RemovePoint(label)

SpecBruteforce == Init /\ [][NextBruteforce]_vars

\* The sortable encoders on pairs of arguments.  INT32_MIN and INT32_MAX
\* bound the int32 arguments; a float is the pair of 16-bit halves of its
\* bit pattern.
INT32_MAX == 2^30 + (2^30 - 1)
INT32_MIN == -INT32_MAX - 1
Int32Samples ==
    {INT32_MIN, INT32_MIN + 1, -65537, -65536, -1, 0, 1, 10, 65535, 65536, INT32_MAX - 1, INT32_MAX}

\* +0.0, -0.0, the least subnormals, 1.0, -1.0, 10.0, 10.5, -10.5, the
\* largest finite floats, +Inf and -Inf
FloatSamples ==
    {<<0, 0>>, <<32768, 0>>, <<0, 1>>, <<32768, 1>>, <<16256, 0>>, <<49024, 0>>,
     <<16672, 0>>, <<16680, 0>>, <<49448, 0>>, <<32639, 65535>>, <<65407, 65535>>,
     <<32640, 0>>, <<65408, 0>>}

NextSortable ==
    \/ \E a \in Int32Samples, b \in Int32Samples : SortableInts(a, b)
    \/ \E a \in FloatSamples, b \in FloatSamples : SortableFloats(a, b)

SpecSortable == Init /\ [][NextSortable]_vars

\* The vectors that are packed: one or two terms, with the values +0.0,
\* -0.0, the least subnormal float, 2^-20, 2^-15, 2^-14, 1.0, 1.0 + 2^-11,
\* -1.5, 65504.0, 65536.0, +Inf, -Inf and a NaN
PackValues ==
    {<<0, 0>>, <<32768, 0>>, <<0, 1>>, <<13696, 0>>, <<14336, 0>>, <<14464, 0>>,
     <<16256, 0>>, <<16256, 4096>>, <<49088, 0>>, <<18303, 57344>>, <<18304, 0>>,
     <<32640, 0>>, <<65408, 0>>, <<32704, 0>>}

PackVectors ==
    {SparseVector(<<>>, <<>>)}
    \cup {SparseVector(<<30>>, <<v>>) : v \in PackValues}
    \cup {SparseVector(<<10, 30>>, <<v1, v2>>) : v1 \in PackValues, v2 \in PackValues}

NextPack == \E vec \in PackVectors : PackVector(vec)

SpecPack == Init /\ [][NextPack]_vars


(***************************************************************************)
(* Properties of the ID mapper and of the WAL                              *)
(***************************************************************************)
\* the external ids of a batch as a set, the elements of a sequence
Range(s) == {s[i] : i \in 1..Len(s)}

\* C1: no two distinct external ids present in the ext->int map are mapped to
\* the same internal id, after any sequence of create_ids_batch, deletePoints
\* and reclaim_failed_ids calls.
C1_Injective ==
    \A s1, s2 \in DOMAIN ext2int : s1 # s2 => ext2int[s1] # ext2int[s2]

\* C6: readEntries returns, in append order, exactly the entries written by
\* log() since the last clear() whose records are whole in the file, for every
\* mix of ADD, DELETE and UPDATE entries.
C6_RoundTrip == readEntries(wal_file) = wal_logged

\* the k-th of the records appended to the WAL by a step, decoded by the
\* layout log() writes (op byte, then the id)
AppendedRecord(k) ==
    LET base == Len(wal_file) + (k - 1) * RecordBytes
    IN  [op_type |-> wal_file'[base + 1], numeric_id |-> LEValue(wal_file', base + 2, IdBytes)]

\* the positions of a call's batch that were not mapped at its lookup
MissingAtLookup(c) == SelectIdx(c.id_tuples, LAMBDA tup : tup.is_new, 1)

\* C7 (pop): with reuse enabled the call takes the ids at the front of
\* DELETED_IDS, as many as it has unmapped entries (or all of them), assigns
\* them to the unmapped entries in input order, removes them from
\* DELETED_IDS, and leaves only the remaining entries to be minted.
C7_PopStep(t) ==
    (call[t].pc = "deleted" /\ call'[t].pc # "deleted") =>
        LET c == call[t]
            missing == MissingAtLookup(c)
            n == Min(Len(missing), Len(deleted_ids))
        IN  /\ deleted_ids' = SubSeq(deleted_ids, n + 1, Len(deleted_ids))
            /\ call'[t].pc # "done" =>
                 /\ call'[t].deletedIds = SubSeq(deleted_ids, 1, n)
                 /\ \A k \in 1..n : call'[t].id_tuples[missing[k]].id = deleted_ids[k]
                 /\ call'[t].fresh_ids_count = Len(missing) - n
            /\ call'[t].pc = "done" => missing = <<>>

\* C7 (result): the unmapped entries are returned, in input order, first with
\* the reused ids and is_new_to_graph = false, then with the freshly minted
\* ids and is_new_to_graph = true.
C7_ReturnStep(t) ==
    (call[t].pc = "write" /\ call'[t].pc = "done") =>
        LET c == call[t]
            missing == MissingAtLookup(c)
            r == Len(c.deletedIds)
        IN  /\ Len(missing) = r + Len(c.new_ids)
            /\ \A k \in 1..Len(missing) :
                 call'[t].result[missing[k]] =
                    IF k <= r THEN <<c.deletedIds[k], FALSE>>
                    ELSE <<c.new_ids[k - r], TRUE>>

\* C7 (no reuse): a call with reuse disabled leaves DELETED_IDS unchanged and
\* mints a fresh id for every unmapped entry.
C7_NoReuseStep(t) ==
    /\ (call[t].pc # "idle" /\ ~call[t].use_deleted_ids /\ call'[t] # call[t]
        /\ call[t].pc \notin {"done", "thrown"})
          => deleted_ids' = deleted_ids
    /\ (call[t].pc = "next" /\ call'[t].pc # "next" /\ ~call[t].use_deleted_ids)
          => Len(call'[t].new_ids) = Len(MissingAtLookup(call[t]))

\* C7: create_ids_batch with reuse gives the unmapped external ids, in input
\* order, the ids at the front of DELETED_IDS, removes them from DELETED_IDS
\* and returns them with is_new_to_graph = false; fresh ids are minted only
\* for the entries left and returned with is_new_to_graph = true; with reuse
\* disabled DELETED_IDS is unchanged and every missing entry gets a fresh id.
C7_ReuseOrder ==
    [][\A t \in Threads : C7_PopStep(t) /\ C7_ReturnStep(t) /\ C7_NoReuseStep(t)]_vars

\* a call that reused the older of two deleted ids and minted nothing
C7_Witness ==
    \E t \in Threads :
        /\ call[t].pc = "write"
        /\ call[t].use_deleted_ids
        /\ Len(call[t].deletedIds) = 1
        /\ deleted_ids # <<>>
        /\ deleted_ids[1] # call[t].deletedIds[1]

\* C8: create_ids_batch returns one (id, flag) pair per input string, in
\* input order, and when it returns the ext->int map maps the string at
\* every input position i to the id returned at position i, also when the
\* same unmapped string occurs more than once in the batch.
C8_ResultMatchesMap ==
    [][\A t \in Threads :
         (call[t].pc \notin {"done", "thrown"} /\ call'[t].pc = "done") =>
            LET c == call'[t]
            IN  /\ Len(c.result) = Len(c.str_ids)
                /\ \A i \in 1..Len(c.str_ids) :
                     /\ c.str_ids[i] \in DOMAIN ext2int'
                     /\ ext2int'[c.str_ids[i]] = c.result[i][1]]_vars

\* the ids a call at its WAL step holds: reused ones, then freshly minted ones
IdsToLog(c) ==
    LET tup == c.id_tuples
        reused == SelectIdx(tup, LAMBDA x : x.is_new /\ x.id # 0, 1)
    IN  [k \in 1..Len(reused) |-> tup[reused[k]].id] \o c.new_ids

\* the step that logs to the WAL appends one ADD record for every id the call
\* reuses or mints, once each, and nothing else
C9_LogsAll(t) ==
    LET ids == IdsToLog(call[t])
    IN  /\ Len(wal_file') = Len(wal_file) + RecordBytes * Len(ids)
        /\ SubSeq(wal_file', 1, Len(wal_file)) = wal_file
        /\ \A k \in 1..Len(ids) : AppendedRecord(k).op_type = VECTOR_ADD
        /\ \A id \in Range(ids) :
             Cardinality({k \in 1..Len(ids) : AppendedRecord(k).numeric_id = id}) = 1

\* the ext->int entries of a call are written only after its WAL step
C9_LogBeforeCommit(t) ==
    (call'[t].pc = "done" /\ call[t].pc \notin {"done", "thrown"} /\ ext2int' # ext2int)
        => call[t].pc = "write"

\* C9 as stated: called with a WAL, create_ids_batch appends an {ADD, id}
\* record for every id it mints or reuses, exactly once each, before the
\* transaction that writes the ext->int entries commits; mapped ids get none.
C9_Original ==
    [][\A t \in Threads :
         /\ (call[t].pc = "wal" /\ call'[t].pc = "write") => C9_LogsAll(t)
         /\ C9_LogBeforeCommit(t)]_vars

\* C9, amended: the same, for a WAL that is enabled when the call logs.
C9_Enabled ==
    [][\A t \in Threads :
         /\ (call[t].pc = "wal" /\ call'[t].pc = "write" /\ wal_enabled) => C9_LogsAll(t)
         /\ C9_LogBeforeCommit(t)]_vars

\* a call that logged a reused and a fresh id to an enabled WAL and is about
\* to commit
C9_Witness ==
    \E t \in Threads :
        /\ call[t].pc = "write"
        /\ call[t].wal_ptr
        /\ call[t].deletedIds # <<>>
        /\ call[t].new_ids # <<>>
        /\ wal_enabled
        /\ {call[t].deletedIds[1], call[t].new_ids[1]}
              \subseteq {wal_logged[k].numeric_id : k \in 1..Len(wal_logged)}

\* C10: no internal id is minted as fresh more than once: a call's fresh ids
\* are the contiguous range of fresh_count ids starting at the NEXT_ID it
\* read, NEXT_ID advances by exactly fresh_count in the same step, and
\* NEXT_ID never decreases.
C10_MintOnce ==
    [][/\ next_id' >= next_id
       /\ \A t \in Threads :
            (call[t].pc = "next" /\ call'[t].pc # "next") =>
               LET n == call[t].fresh_ids_count
                   ids == call'[t].new_ids
               IN  /\ Len(ids) = n
                   /\ \A i \in 1..n : ids[i] = next_id + i - 1
                   /\ \A i \in 1..n : ids[i] \notin minted
                   /\ next_id' = next_id + n
       /\ (next_id' # next_id) =>
            \E t \in Threads : call[t].pc = "next" /\ call'[t].pc # "next"]_vars

\* two calls in flight at once, each holding ids it minted
C10_Witness ==
    \E t1, t2 \in Threads :
        /\ t1 # t2
        /\ call[t1].pc = "write" /\ call[t1].new_ids # <<>>
        /\ call[t2].pc = "write" /\ call[t2].new_ids # <<>>

(***************************************************************************)
(* Properties of the numeric index                                         *)
(***************************************************************************)
\* the ids whose current value for a field lies in [lo, hi]
IdsInRange(field, lo, hi) ==
    {id \in NumIds : /\ FwdKey(field, id) \in DOMAIN num_current
                     /\ num_current[FwdKey(field, id)] >= lo
                     /\ num_current[FwdKey(field, id)] <= hi}

\* C3: after any sequence of put and remove calls, range(F, lo, hi) returns
\* exactly the ids whose current value for F lies in [lo, hi], the same ids
\* for which check_range(F, id, lo, hi) is true.
C3_RangeExact ==
    \A i \in 1..Len(NumFields), lo \in NumValues, hi \in NumValues :
        LET field == NumFields[i]
        IN  /\ NumericRange(num_inverted, field, lo, hi) = IdsInRange(field, lo, hi)
            /\ {id \in NumIds : CheckRange(num_forward, field, id, lo, hi)}
                  = IdsInRange(field, lo, hi)

(***************************************************************************)
(* Properties of the filter                                                *)
(***************************************************************************)
Cond(field, op, val) == [field |-> field, op |-> op, val |-> val]

\* the conditions of the queries: none of them is malformed
FilterConditions ==
    {Cond("color", "$eq", JStr("red")),
     Cond("color", "$in", <<JStr("red"), JStr("blue")>>),
     Cond("price", "$eq", JInt(10)),
     Cond("price", "$in", <<JInt(11), JFloat(21)>>),
     Cond("price", "$range", <<JInt(10), JInt(11)>>),
     Cond("price", "$range", <<JFloat(19), JFloat(21)>>)}

FilterQueries ==
    {<<c>> : c \in FilterConditions} \cup {<<c1, c2>> : c1, c2 \in FilterConditions}

\* equality and order of JSON values: numbers by their value, whatever their
\* representation; strings and booleans by themselves
JEqual(v, w) ==
    IF IsNumber(v) /\ IsNumber(w) THEN v.twice = w.twice
    ELSE ~IsNumber(v) /\ ~IsNumber(w) /\ v = w

\* a document satisfies a condition
Satisfies(doc, cond) ==
    /\ cond.field \in DOMAIN doc
    /\ LET v == doc[cond.field]
       IN  IF cond.op = "$eq" THEN JEqual(v, cond.val)
           ELSE IF cond.op = "$in"
           THEN \E i \in 1..Len(cond.val) : JEqual(v, cond.val[i])
           ELSE /\ IsNumber(v)
                /\ cond.val[1].twice <= v.twice
                /\ v.twice <= cond.val[2].twice

Matching(filter_array) ==
    {id \in DOMAIN filter_docs :
        \A i \in 1..Len(filter_array) : Satisfies(filter_docs[id], filter_array[i])}

\* C4: for documents ingested and not removed, computeFilterBitmap(filter)
\* returns exactly the ids of the documents that satisfy every conjunct:
\* $eq by equality with the operand, $in by equality with some element,
\* $range by a numeric value in [lo, hi].  (Stated for the queries the
\* function answers without throwing.)
C4_ExactMatch ==
    \A q \in FilterQueries :
        ~computeFilterBitmap(q).throws => computeFilterBitmap(q).ids = Matching(q)

(***************************************************************************)
(* BMWIndex properties                                                     *)
(***************************************************************************)
\* the blocks a term_blocks table holds for a term
StoredStarts(db, term_id) == {key[2] : key \in {kk \in DOMAIN db : kk[1] = term_id}}

\* the postings of the term as loadBlock reads them: <<doc_id, value>>
PostingsOf(db, term_id) ==
    UNION {{<<start + e.doc_diff, e.value>> : e \in Range(loadBlock(db, term_id, start))} :
           start \in StoredStarts(db, term_id)}

\* the documents with a live (non-tombstone) posting of the term
LiveDocs(db, term_id) == {p[1] : p \in {pp \in PostingsOf(db, term_id) : pp[2] > 0}}

RECURSIVE SumValues(_)
SumValues(S) ==
    IF S = {} THEN 0 ELSE LET x == CHOOSE y \in S : TRUE IN x[2] + SumValues(S \ {x})

\* the dequantized stored value of the document in the term, 0 without a
\* live posting
StoredValue(term_id, doc_id) ==
    SumValues({p \in PostingsOf(term_blocks, term_id) : p[1] = doc_id})

RECURSIVE ReferenceScore(_, _, _)
ReferenceScore(query, doc_id, i) ==
    IF i > Len(query.indices) THEN 0
    ELSE query.values[i] * StoredValue(query.indices[i], doc_id)
         + ReferenceScore(query, doc_id, i + 1)

BmwMatching(query) ==
    UNION {LiveDocs(term_blocks, query.indices[i]) : i \in 1..Len(query.indices)}

BmwQueries ==
    {SparseVector(<<10>>, <<1>>), SparseVector(<<30>>, <<1>>),
     SparseVector(<<10, 30>>, <<1, 1>>)}

\* the integer arithmetic of dequantize is exact: on the values loadBlock
\* dequantizes with the header's maximum and on the values the iterators
\* dequantize with the block list's maximum
DequantizeExact ==
    /\ \A key \in DOMAIN term_blocks : \A i \in 1..Len(term_blocks[key].entries) :
           (term_blocks[key].entries[i].value * term_blocks[key].header.block_max_value)
               % QuantMax = 0
    /\ \A t \in DOMAIN term_blocks_index : \A b \in 1..Len(term_blocks_index[t]) :
           LET view == getReadOnlyBlock(term_blocks, t, term_blocks_index[t][b].start_doc_id)
           IN  \A i \in 1..Len(view.entries) :
                   (view.entries[i].value * term_blocks_index[t][b].block_max_value)
                       % QuantMax = 0

\* the result is a best-first top-k of the matching documents
TopK(result, query, k) ==
    /\ Len(result) = Min(k, Cardinality(BmwMatching(query)))
    /\ \A i, j \in 1..Len(result) : i # j => result[i][1] # result[j][1]
    /\ \A i \in 1..Len(result) :
           /\ result[i][1] \in BmwMatching(query)
           /\ result[i][2] = ReferenceScore(query, result[i][1], 1)
    /\ \A i, j \in 1..Len(result) : i < j => result[i][2] >= result[j][2]
    /\ \A d \in BmwMatching(query) \ {result[i][1] : i \in 1..Len(result)} :
           \A i \in 1..Len(result) : ReferenceScore(query, d, 1) <= result[i][2]

\* C2: search(query, k) returns the min(k, number of matching documents)
\* documents with the highest score among the documents with a live posting
\* for a query term, each with the sum of weight times dequantized stored
\* value as its score, best first, and omits no document that scores
\* strictly higher than a returned one.
C2_SearchTopK ==
    \A query \in BmwQueries : \A k \in 1..MaxDocId :
        TopK(search(term_blocks_index, term_blocks, query, k), query, k)

\* the documents a search result holds
ResultDocs(result) == {result[at][1] : at \in 1..Len(result)}

\* in the index r, every positive term of every document of the batch has a
\* live posting that a search on the term alone returns
AddedLive(r, docs) ==
    \A n \in 1..Len(docs) : \A i \in 1..Len(docs[n][2].indices) :
        docs[n][2].values[i] > 0 =>
            /\ docs[n][1] \in LiveDocs(r.db, docs[n][2].indices[i])
            /\ docs[n][1] \in ResultDocs(search(r.index, r.db,
                                              SparseVector(<<docs[n][2].indices[i]>>, <<1>>),
                                              MaxDocId))

\* a batch that succeeded left its documents live
SucceededLive(r, docs) == r.ok => AddedLive(r, docs)

\* C5: after addDocument / addDocumentsBatch succeeds, every term with a
\* positive value of every added document has a live posting for the
\* document and a search on that term with k at least the number of
\* documents returns it, also when the insert splits the block and
\* whatever the values of the other entries of the block.  (Stated of the
\* index every batch leaves behind when it is added in the current state.)
C5_AddedIsLive ==
    \A docs \in BmwBatches :
        SucceededLive(addDocumentsBatchInternal(
                          BmwState(term_blocks_index, term_blocks, TRUE),
                          term_blocks_index_db, docs),
                      docs)

(***************************************************************************)
(* IDMapper: crashes                                                       *)
(***************************************************************************)
\* the <<str_id, id>> pairs in use: mapped in ext->int or held by a caller
HeldPairs == handed_out \cup {<<e, ext2int[e]>> : e \in DOMAIN ext2int}

\* the ids get_next_ids returned that nobody holds and nothing will hand out
LostIds ==
    {id \in minted : /\ \A p \in HeldPairs : p[2] # id
                     /\ \A i \in 1..Len(deleted_ids) : deleted_ids[i] # id}

\* C11: whatever step of create_ids_batch the process crashes at, after the
\* mapper is reopened no id that is mapped in ext->int or that a caller holds
\* is handed out to a different external id: an id in use belongs to one
\* external id only.
C11_NoReuseAfterCrash ==
    \A p, q \in HeldPairs : p[2] = q[2] => p[1] = q[1]

\* a crash after NEXT_ID was advanced lost an id, and a call after the
\* restart handed out a later one
C11_Witness ==
    /\ call[MainThread].pc = "done"
    /\ \E p \in handed_out : \E id \in LostIds : p[2] > id

(***************************************************************************)
(* SparseVectorStorage: failed and concurrent writes                       *)
(***************************************************************************)
\* C12: after a sparse-storage write (store_vector, store_vectors_batch,
\* update_vector, delete_vector) that failed, at whatever step, the docs
\* table, the term_blocks table, the saved and the in-memory block lists of
\* every term, and the vector count are what they were before the call.
C12_FailedWriteLeavesState ==
    sparse_txn.status = "failed" => CurrentSnapshot = sparse_txn.before

\* what a search that starts now works on: the block lists in memory, under
\* the shared lock, and the blocks its read transaction finds in the table
SearchView == [index |-> term_blocks_index, db |-> term_blocks]

\* C13: a search that runs while a write is between its index update and its
\* commit sees the block lists and the blocks of one state, the one before
\* the write or the one after it, never the lists of one and the blocks of
\* the other.
C13_SearchSeesWholeWrite ==
    sparse_txn.status = "open" =>
        SearchView \in {[index |-> sparse_txn.before.index, db |-> sparse_txn.before.db],
                        [index |-> sparse_txn.view.index, db |-> sparse_txn.view.db]}

(***************************************************************************)
(* BMWIndex: the documents the search loop skips                           *)
(***************************************************************************)
\* the block_max_value of the listed blocks of the term that hold a live
\* posting of the document
HolderMaxes(index, db, term_id, doc_id) ==
    {index[term_id][b].block_max_value :
        b \in {c \in 1..Len(index[term_id]) :
                  \E e \in Range(loadBlock(db, term_id, index[term_id][c].start_doc_id)) :
                      /\ e.value > 0
                      /\ index[term_id][c].start_doc_id + e.doc_diff = doc_id}}

\* whether the postings of the i-th query term contain the document
Contains(query, i, doc_id, index, db) ==
    /\ query.indices[i] \in DOMAIN index
    /\ HolderMaxes(index, db, query.indices[i], doc_id) # {}

\* the least of a non-empty set of numbers
Least(S) == CHOOSE x \in S : \A y \in S : x <= y

\* the sum of term_weight * block_max_value over the query terms from the
\* i-th on whose postings contain the document, with the block that holds it
RECURSIVE SkipBound(_, _, _, _, _)
SkipBound(query, i, doc_id, index, db) ==
    IF i > Len(query.indices) THEN 0
    ELSE (IF Contains(query, i, doc_id, index, db)
          THEN query.values[i] * Least(HolderMaxes(index, db, query.indices[i], doc_id))
          ELSE 0)
         + SkipBound(query, i + 1, doc_id, index, db)

\* every document from lo up to hi, hi excluded, that the postings of the
\* query terms contain has a bound of at most the threshold
SkippedBounded(query, lo, hi, threshold, index, db) ==
    \A doc_id \in BmwDocIds :
        (lo <= doc_id /\ doc_id < hi
            /\ \E i \in 1..Len(query.indices) : Contains(query, i, doc_id, index, db))
        => SkipBound(query, 1, doc_id, index, db) <= threshold

\* the while(true) loop of search run again, for the documents it leaves
\* out: TRUE when each one it skips, by moving the iterators before the
\* pivot up to the pivot or by stopping without a pivot, is bounded by the
\* threshold of that round
RECURSIVE SkipLoop(_, _, _, _, _, _, _)
RECURSIVE SkipPivot(_, _, _, _, _, _, _, _)
RECURSIVE SkipScored(_, _, _, _, _, _, _, _)
RECURSIVE SkipPushed(_, _, _, _, _, _, _)
SkipLoop(sorted, top_k, threshold, k, index, db, query) ==
    IF DropExhausted(sorted) = <<>> THEN TRUE
    ELSE SkipPivot(DropExhausted(sorted),
                   PivotIdx(DropExhausted(sorted), threshold, index),
                   top_k, threshold, k, index, db, query)

SkipPivot(iterators, pivot_idx, top_k, threshold, k, index, db, query) ==
    IF pivot_idx = 0
    THEN SkippedBounded(query, iterators[1].current_doc_id, IdIntMax, threshold, index, db)
    ELSE IF iterators[1].current_doc_id = iterators[pivot_idx].current_doc_id
    THEN SkipScored(
             SortIterators(ScoredIterators(iterators, iterators[pivot_idx].current_doc_id,
                                           index, db)),
             BMWCandidate(iterators[pivot_idx].current_doc_id,
                          CandidateScore(iterators, 1, iterators[pivot_idx].current_doc_id,
                                         index, db)),
             top_k, threshold, k, index, db, query)
    ELSE /\ SkippedBounded(query, iterators[1].current_doc_id,
                           iterators[pivot_idx].current_doc_id, threshold, index, db)
         /\ SkipLoop(
                SortIterators(AdvancedToPivot(iterators, pivot_idx,
                                              iterators[pivot_idx].current_doc_id,
                                              index, db)),
                top_k, threshold, k, index, db, query)

SkipScored(after, cand, top_k, threshold, k, index, db, query) ==
    IF Len(top_k) < k
    THEN SkipPushed(after, HeapPush(top_k, cand), threshold, k, index, db, query)
    ELSE IF cand.score > threshold
    THEN SkipPushed(after, HeapPush(HeapPop(top_k), cand), threshold, k, index, db, query)
    ELSE SkipLoop(after, top_k, threshold, k, index, db, query)

SkipPushed(after, top_k, threshold, k, index, db, query) ==
    SkipLoop(after, top_k, IF Len(top_k) = k THEN top_k[1].score ELSE threshold,
             k, index, db, query)

\* C14: whenever the search loop skips a document, by advancing the
\* iterators past it without scoring it or by stopping, the sum of
\* term_weight * block_max_value over the query terms whose postings contain
\* the document, with the block that holds the document, is at most the
\* threshold in force at that moment.
C14_SkipsSound ==
    \A query \in BmwQueries : \A k \in 1..MaxDocId :
        SkipLoop(SortIterators(QueryIterators(query, term_blocks_index, term_blocks)),
                 <<>>, 0, k, term_blocks_index, term_blocks, query)

(***************************************************************************)
(* SparseVectorStorage: deletes                                            *)
(***************************************************************************)
\* the index after delete_vector(doc_id) removed the stored vector from it
DeletedState(doc_id) ==
    removeDocumentInternal(BmwState(term_blocks_index, term_blocks, TRUE), doc_id,
                           unpack(sparse_docs[doc_id]).indices)

\* the doc_diff column of a stored block
DocDiffs(block) == [i \in 1..Len(block.entries) |-> block.entries[i].doc_diff]

\* in the index st every posting of the document in the terms of vec is a
\* tombstone
Tombstoned(st, doc_id, vec) ==
    \A i \in 1..Len(vec.indices) :
        \A p \in PostingsOf(st.db, vec.indices[i]) : p[1] = doc_id => p[2] = 0

\* the blocks of st hold the entries they held before the removal
SameEntries(st) ==
    \A key \in DOMAIN term_blocks :
        /\ key \in DOMAIN st.db
        /\ st.db[key].header.n = term_blocks[key].header.n
        /\ DocDiffs(st.db[key]) = DocDiffs(term_blocks[key])

\* no search on the index st returns the document
NeverReturned(st, doc_id) ==
    \A query \in BmwQueries : \A k \in 1..MaxDocId :
        doc_id \notin ResultDocs(search(st.index, st.db, query, k))

DeletedIsGone(st, doc_id, vec) ==
    /\ Tombstoned(st, doc_id, vec)
    /\ SameEntries(st)
    /\ NeverReturned(st, doc_id)

\* C15: after delete_vector(d), which removes the vector stored for d from
\* the index, every posting of d in the terms of that vector is a tombstone
\* (value 0), the blocks keep their entry count n and their doc_diff order,
\* and no search returns d.
C15_DeletedIsGone ==
    sparse_txn.status # "open" =>
        \A doc_id \in DOMAIN sparse_docs :
            DeletedIsGone(DeletedState(doc_id), doc_id, unpack(sparse_docs[doc_id]))

(***************************************************************************)
(* IDMapper: deletePoints                                                  *)
(***************************************************************************)
\* the i-th string of the input does not occur before position i
FirstAt(external_ids, i) == \A j \in 1..(i - 1) : external_ids[j] # external_ids[i]

\* what deletePoints leaves behind for the input external_ids and the
\* returned ids: none of the strings is mapped, DELETED_IDS is the old list
\* followed by entries among which every non-zero returned id occurs, and
\* the other mappings are the old ones
DeleteEffects(external_ids, ids) ==
    /\ Len(ids) = Len(external_ids)
    /\ \A i \in 1..Len(external_ids) : external_ids[i] \notin DOMAIN ext2int'
    /\ Len(deleted_ids') >= Len(deleted_ids)
    /\ SubSeq(deleted_ids', 1, Len(deleted_ids)) = deleted_ids
    /\ \A i \in 1..Len(ids) :
           ids[i] # 0 => \E j \in (Len(deleted_ids) + 1)..Len(deleted_ids') :
                             deleted_ids'[j] = ids[i]
    /\ DOMAIN ext2int' = DOMAIN ext2int \ Range(external_ids)
    /\ \A e \in DOMAIN ext2int' : ext2int'[e] = ext2int[e]

\* the returned list holds, position by position, the previous id of a
\* string that was mapped when the call started and 0 for one that was not
ReturnsPrevious(external_ids, ids) ==
    \A i \in 1..Len(ids) :
        ids[i] = IF external_ids[i] \in DOMAIN ext2int THEN ext2int[external_ids[i]] ELSE 0

\* the same, with 0 for the later occurrences of a string listed twice
ReturnsPreviousOnce(external_ids, ids) ==
    \A i \in 1..Len(ids) :
        ids[i] = IF external_ids[i] \in DOMAIN ext2int /\ FirstAt(external_ids, i)
                 THEN ext2int[external_ids[i]]
                 ELSE 0

\* C16 as stated: deletePoints returns a list of the length and order of its
\* input with the previous id of each string that was present and 0 for each
\* that was not; afterwards no listed string is mapped, every non-zero
\* returned id has been appended to DELETED_IDS and the other mappings are
\* unchanged.
C16_Original ==
    [][\A external_ids \in SeqsOf(ExtIds, 1, MaxBatch) :
           DeletePoints(external_ids) =>
               /\ ReturnsPrevious(external_ids, DeletePointsIds(external_ids, ext2int))
               /\ DeleteEffects(external_ids, DeletePointsIds(external_ids, ext2int))]_vars

\* C16, amended: the previous id is returned at the first occurrence of a
\* string that was present; a later occurrence of the same string, like a
\* string that was not present, gets 0.  The effects are as stated.
C16_DeletePoints ==
    [][\A external_ids \in SeqsOf(ExtIds, 1, MaxBatch) :
           DeletePoints(external_ids) =>
               /\ ReturnsPreviousOnce(external_ids, DeletePointsIds(external_ids, ext2int))
               /\ DeleteEffects(external_ids, DeletePointsIds(external_ids, ext2int))]_vars

\* a mapping was erased and its id stands in DELETED_IDS, free, while another
\* string is still mapped
C16_Witness ==
    /\ DOMAIN ext2int # {}
    /\ call[MainThread].pc \in {"idle", "done"}
    /\ \E i \in 1..Len(deleted_ids) :
           /\ deleted_ids[i] \in minted
           /\ \A p \in HeldPairs : p[2] # deleted_ids[i]

\* C17: for every mapping deletePoints erases, a {DELETE, id} record with
\* the erased id stands in the WAL by the time the transaction that erases
\* the mapping and appends to DELETED_IDS has committed.
C17_DeleteLogged ==
    [][\A external_id \in ExtIds :
           (external_id \in DOMAIN ext2int /\ external_id \notin DOMAIN ext2int') =>
               \E i \in 1..Len(wal_logged') :
                   wal_logged'[i] = [op_type |-> VECTOR_DELETE,
                                    numeric_id |-> ext2int[external_id]]]_vars

\* C18: after any sequence of create_ids_batch, deletePoints and
\* reclaim_failed_ids calls, an id stands in DELETED_IDS at most once, and
\* never while some external id is mapped to it.
C18_DeletedIdsFree ==
    /\ \A i, j \in 1..Len(deleted_ids) : deleted_ids[i] = deleted_ids[j] => i = j
    /\ \A i \in 1..Len(deleted_ids) :
           \A e \in DOMAIN ext2int : ext2int[e] # deleted_ids[i]

\* the ids a call in flight has reserved: popped from DELETED_IDS or minted
ReservedIds(c) == Range(c.deletedIds) \cup Range(c.new_ids)

\* C19: when create_ids_batch fails after it reserved ids, because the write
\* transaction of the ext->int entries fails or cannot commit, no ext->int
\* entry of the batch is written and every reserved id stands in DELETED_IDS
\* afterwards.
C19_FailedBatchReclaimed ==
    [][\A t \in Threads :
           (call[t].pc = "write" /\ call'[t].pc = "thrown") =>
               /\ ext2int' = ext2int
               /\ \A id \in ReservedIds(call[t]) :
                      \E i \in 1..Len(deleted_ids') : deleted_ids'[i] = id]_vars

\* what create_ids_batch returns for the list of the finished call c when
\* it is called again now: the lookup and the result list
SecondCall(c) == ResultOf(LookupTuples(InitTuples(c.str_ids), ext2int))

\* the second call finds every string, needs no id, and returns the ids of
\* the first call with is_new_to_graph = false
SameAsFirst(c) ==
    /\ TotalNewIdsNeeded(LookupTuples(InitTuples(c.str_ids), ext2int)) = 0
    /\ \A i \in 1..Len(c.str_ids) :
           /\ SecondCall(c)[i][1] = c.result[i][1]
           /\ SecondCall(c)[i][2] = FALSE

\* C20: create_ids_batch called a second time with the list of a call that
\* has returned, while its strings are present, returns the same ids, all
\* with is_new_to_graph = false, and needs no new id, so that it changes
\* neither ext->int, NEXT_ID, DELETED_IDS nor the WAL.
C20_Idempotent ==
    \A t \in Threads :
        (/\ call[t].pc = "done"
         /\ call[t].str_ids # <<>>
         /\ \A i \in 1..Len(call[t].str_ids) : call[t].str_ids[i] \in DOMAIN ext2int)
        => SameAsFirst(call[t])

(***************************************************************************)
(* Filter: the order of the conjuncts                                      *)
(***************************************************************************)
\* the conditions the orderings are tried with: some throw whatever the
\* schema holds, some throw for one registered type only
OrderConditions ==
    <<Cond("color", "$eq", JStr("red")),
      Cond("color", "$in", <<JStr("red"), JBool(TRUE)>>),
      Cond("color", "$in", <<>>),
      Cond("price", "$eq", JStr("10")),
      Cond("price", "$eq", JInt(10)),
      Cond("price", "$range", <<JInt(10), JInt(11)>>),
      Cond("price", "$eq", JFloat(21))>>

\* every two of them, and some three of them
OrderQueries ==
    {<<OrderConditions[ij[1]], OrderConditions[ij[2]]>> :
        ij \in {kl \in (1..Len(OrderConditions)) \X (1..Len(OrderConditions)) : kl[1] < kl[2]}}
    \cup {<<OrderConditions[t[1]], OrderConditions[t[2]], OrderConditions[t[3]]>> :
             t \in {<<1, 5, 6>>, <<1, 4, 6>>, <<3, 5, 2>>, <<2, 7, 4>>}}

\* the filter array with its conjuncts in the order p
Permuted(filter_array, p) == [i \in 1..Len(filter_array) |-> filter_array[p[i]]]

\* the permutations of the filter array evaluate to `result`
SameInEveryOrder(filter_array, result) ==
    \A p \in Permutations(1..Len(filter_array)) :
        Permuted(filter_array, p) # filter_array =>
            computeFilterBitmap(Permuted(filter_array, p)) = result

\* C21: the result of computeFilterBitmap does not depend on the order of
\* the conjuncts: a filter array and every permutation of it evaluate to
\* the same bitmap, or both fail.
C21_OrderFree ==
    \A q \in OrderQueries : SameInEveryOrder(q, computeFilterBitmap(q))

\* two conjuncts with different bitmaps whose conjunction matches a document
C21_Witness ==
    LET c1 == Cond("color", "$eq", JStr("red"))
        c2 == Cond("price", "$range", <<JInt(10), JInt(11)>>)
    IN  /\ computeFilterBitmap(<<c1, c2>>).ids # {}
        /\ computeFilterBitmap(<<c1>>) # computeFilterBitmap(<<c2>>)
        /\ computeFilterBitmap(<<c2, c1>>) = computeFilterBitmap(<<c1, c2>>)

(***************************************************************************)
(* Filter: $in against $eq                                                 *)
(***************************************************************************)
\* the operands of $eq and the elements of $in
InOperands == {JStr("red"), JStr(""), JStr("10"), JBool(TRUE), JInt(10), JFloat(21)}

\* the bitmaps of {field: {$eq: v}} for the elements of vals
EqResults(field, vals) ==
    [i \in 1..Len(vals) |-> computeFilterBitmap(<<Cond(field, "$eq", vals[i])>>)]

\* {field: {$in: vals}} is the union of the $eq results; it fails when one
\* of them fails
InIsUnionOfEq(field, vals) ==
    LET eqs == EqResults(field, vals)
        in == computeFilterBitmap(<<Cond(field, "$in", vals)>>)
    IN  IF \E i \in 1..Len(vals) : eqs[i].throws THEN in.throws
        ELSE in = Bitmap(UNION {eqs[i].ids : i \in 1..Len(vals)})

\* C22: a conjunct {field: {$in: [v1..vn]}} yields the union of the results
\* of {field: {$eq: vi}}, with the dispatch of $eq for every element, the
\* empty string included; an empty $in array yields the empty set, and so
\* does the whole filter.
C22_InIsUnionOfEq ==
    /\ \A i \in 1..Len(FilterFields), vals \in SeqsOf(InOperands, 0, 2) :
           InIsUnionOfEq(FilterFields[i], vals)
    /\ \A i \in 1..Len(FilterFields), c \in FilterConditions :
           ~computeFilterBitmap(<<c>>).throws =>
               computeFilterBitmap(<<c, Cond(FilterFields[i], "$in", <<>>)>>) = Bitmap({})

(***************************************************************************)
(* Filter: the empty filter array                                          *)
(***************************************************************************)
\* C23: computeFilterBitmap on an empty filter array returns the empty
\* bitmap (no document matches), whatever documents have been ingested.
C23_EmptyFilter == computeFilterBitmap(<<>>) = Bitmap({})

\* the empty filter on a filter that holds documents in both indexes
C23_Witness ==
    /\ \E key \in DOMAIN bitmap_db : bitmap_db[key] # {}
    /\ DOMAIN num_forward # {}
    /\ computeFilterBitmap(<<>>) = Bitmap({})

(***************************************************************************)
(* Filter: the type of an operand against the schema                       *)
(***************************************************************************)
\* conjuncts with one operand, or with the two bounds of a range
TypedConditions ==
    {Cond(FilterFields[i], "$eq", v) : i \in 1..Len(FilterFields), v \in InOperands}
    \cup {Cond(FilterFields[i], "$in", <<v>>) : i \in 1..Len(FilterFields), v \in InOperands}
    \cup {Cond(FilterFields[i], "$range", <<JInt(10), JFloat(21)>>) : i \in 1..Len(FilterFields)}

\* the type of the operand of a conjunct
OperandType(cond) ==
    IF cond.op = "$eq" THEN FieldTypeOf(cond.val) ELSE FieldTypeOf(cond.val[1])

\* the conjunct evaluated with its field registered with `type`
EvaluatedAs(cond, type) ==
    ComputeFrom(<<cond>>, 1, TRUE, {}, DbPut(schema_cache, cond.field, type),
                bitmap_db, num_inverted)

\* a registered field queried with an operand of another type fails
MismatchFails(cond) ==
    (cond.field \in DOMAIN schema_cache /\ schema_cache[cond.field] # OperandType(cond))
        => computeFilterBitmap(<<cond>>).throws

\* a field that is not registered is queried with the type of the operand
UnknownAsOperand(cond) ==
    cond.field \notin DOMAIN schema_cache
        => computeFilterBitmap(<<cond>>) = EvaluatedAs(cond, OperandType(cond))

\* C24: computeFilterBitmap fails, and returns no bitmap, whenever the
\* operand of a conjunct has a type other than the type registered for its
\* field (a String field queried with a number or a boolean, a Bool field
\* with a string or a number, a Number field with a string); for a field
\* that is not in the schema the conjunct is evaluated with the type of the
\* operand.
C24_TypeMismatch ==
    \A cond \in TypedConditions : MismatchFails(cond) /\ UnknownAsOperand(cond)

(***************************************************************************)
(* Filter: the schema and the fields of an ingested document               *)
(***************************************************************************)
\* the bitmap keys of a field
FieldKeys(field) ==
    {FormatFilterKey(field, OperandString(v)) : v \in ColorValues \cup PriceValues}

\* the document id has no entry for the field in the tables bitmaps, fwd, inv
NotIndexed(field, id, bitmaps, fwd, inv) ==
    /\ \A key \in FieldKeys(field) : id \notin GetBitmap(bitmaps, key)
    /\ FwdKey(field, id) \notin DOMAIN fwd
    /\ \A key \in DOMAIN inv :
           key.f = field => \A i \in 1..Len(inv[key]) : inv[key][i][2] # id

\* the document id is indexed for the field with the value v
IndexedAs(field, id, v, bitmaps, fwd, inv) ==
    IF IsNumber(v)
    THEN /\ FwdKey(field, id) \in DOMAIN fwd
         /\ fwd[FwdKey(field, id)] = SortableOf(v)
         /\ id \in NumericRange(inv, field, SortableOf(v), SortableOf(v))
    ELSE id \in GetBitmap(bitmaps, FormatFilterKey(field, OperandString(v)))

\* the fields of the document whose values have the registered type
Kept(doc, schema) ==
    [field \in {g \in DOMAIN doc : g \in DOMAIN schema /\ schema[g] = FieldTypeOf(doc[g])} |->
        doc[field]]

\* the step leaves the bitmaps and the numeric index that the ingest of
\* `pairs` leaves
IngestedAs(pairs) ==
    LET st == AddPairs(FilterState, pairs, 1)
    IN  bitmap_db' = st.bitmaps /\ num_forward' = st.fwd /\ num_inverted' = st.inv

\* the ids of S in some order
OrdersOf(S) == {ids \in SeqsOf(S, Cardinality(S), Cardinality(S)) : NoDuplicates(ids)}

\* C25: once a field is registered in the schema with a type, no later
\* ingest changes that type; a document ingested with a value of another
\* type for the field is not indexed for that field, in the bitmap index or
\* in the numeric index, and its other fields are indexed normally: as the
\* ingest of the document without that field indexes them.
C25_SchemaImmutable ==
    [][/\ \A field \in DOMAIN schema_cache :
              field \in DOMAIN schema_cache' /\ schema_cache'[field] = schema_cache[field]
       /\ \A id \in DOMAIN filter_docs' \ DOMAIN filter_docs :
              \A field \in DOMAIN filter_docs'[id] :
                  /\ field \in DOMAIN schema_cache'
                  /\ schema_cache'[field] # FieldTypeOf(filter_docs'[id][field])
                        => NotIndexed(field, id, bitmap_db', num_forward', num_inverted')
       /\ DOMAIN filter_docs' \ DOMAIN filter_docs # {}
             => \E ids \in OrdersOf(DOMAIN filter_docs' \ DOMAIN filter_docs) :
                    IngestedAs([i \in 1..Len(ids) |->
                                   <<ids[i], Kept(filter_docs'[ids[i]], schema_cache')>>])]_vars

\* a document with one field of another type than registered and one field
\* of the registered type
C25_Witness ==
    \E id \in DOMAIN filter_docs :
        /\ DOMAIN filter_docs[id] = {"color", "price"}
        /\ schema_cache["color"] # FieldTypeOf(filter_docs[id]["color"])
        /\ schema_cache["price"] = FieldTypeOf(filter_docs[id]["price"])
        /\ NotIndexed("color", id, bitmap_db, num_forward, num_inverted)
        /\ IndexedAs("price", id, filter_docs[id]["price"], bitmap_db, num_forward, num_inverted)

(***************************************************************************)
(* Filter: numbers written as integers and as floats                       *)
(***************************************************************************)
\* the bounds of the ranges: 10, 11 and 9.5, 10.0, 10.5, 11.0
RangeOperands == {JInt(10), JInt(11), JFloat(19), JFloat(20), JFloat(21), JFloat(22)}

\* the document is returned by $range [lo, hi] on the field
InRangeResult(field, id, lo, hi) ==
    LET result == computeFilterBitmap(<<Cond(field, "$range", <<lo, hi>>)>>)
    IN  ~result.throws /\ id \in result.ids

\* C26: for a Number field that holds integer-valued and fractional values,
\* and for operands written as integers or as floats, the sortable keys of
\* ingest and of query are ordered with one another: a document whose value
\* x satisfies lo <= x <= hi is returned by $range [lo, hi], whether x, lo
\* and hi were written as integers or as floats.
C26_MixedNumbers ==
    \A id \in DOMAIN filter_docs :
        (/\ "price" \in DOMAIN filter_docs[id]
         /\ IsNumber(filter_docs[id]["price"])
         /\ "price" \in DOMAIN schema_cache
         /\ schema_cache["price"] = FT_Number)
        => \A lo \in RangeOperands, hi \in RangeOperands :
               (lo.twice <= filter_docs[id]["price"].twice
                    /\ filter_docs[id]["price"].twice <= hi.twice)
               => InRangeResult("price", id, lo, hi)

(***************************************************************************)
(* The sortable keys                                                       *)
(***************************************************************************)
\* the float with the bit pattern w as a number to compare by: the 31 bits
\* of the magnitude, negated under the sign bit.  Both zeros are 0.
FloatKey(w) ==
    LET magnitude == (w[1] % (HALF \div 2)) * HALF + w[2]
    IN  IF w[1] < HALF \div 2 THEN magnitude ELSE -magnitude

\* a <= b for two floats that are not NaN
FloatLeq(a, b) == FloatKey(a) <= FloatKey(b)

\* the order of the keys: a <= b, with -0.0 strictly below +0.0
FloatBelow(a, b) ==
    \/ FloatKey(a) < FloatKey(b)
    \/ FloatKey(a) = FloatKey(b) /\ (a = b \/ a[1] >= HALF \div 2)

\* the keys of two ints are ordered as the ints are
IntsOrdered ==
    sortable_call.kind = "int" =>
        ((sortable_call.key_a <= sortable_call.key_b) <=> (sortable_call.a <= sortable_call.b))

\* the decoders give the arguments back
Inverted ==
    sortable_call.kind # "none" =>
        sortable_call.back_a = sortable_call.a /\ sortable_call.back_b = sortable_call.b

\* The statement of C27 as it was made: the keys of two floats are ordered
\* as the floats compare.
C27_Original ==
    /\ IntsOrdered
    /\ Inverted
    /\ sortable_call.kind = "float" =>
          ((sortable_call.key_a <= sortable_call.key_b)
              <=> FloatLeq(sortable_call.a, sortable_call.b))

\* C27: the sortable encodings preserve order: for all int32 a, b,
\* int_to_sortable(a) <= int_to_sortable(b) as unsigned words iff a <= b;
\* for all float bit patterns a, b that are not NaN, float_to_sortable(a) <=
\* float_to_sortable(b) iff a <= b, where -0.0 counts as strictly below
\* +0.0; sortable_to_int and sortable_to_float are the exact inverses of
\* the two encoders.
C27_SortableOrder ==
    /\ IntsOrdered
    /\ Inverted
    /\ sortable_call.kind = "float" =>
          ((sortable_call.key_a <= sortable_call.key_b)
              <=> FloatBelow(sortable_call.a, sortable_call.b))

\* two negative floats in their order, encoded and decoded
C27_Witness ==
    /\ sortable_call.kind = "float"
    /\ sortable_call.a[1] >= HALF \div 2 /\ sortable_call.b[1] >= HALF \div 2
    /\ FloatKey(sortable_call.a) < FloatKey(sortable_call.b)
    /\ sortable_call.key_a < sortable_call.key_b
    /\ sortable_call.back_a = sortable_call.a

(***************************************************************************)
(* SparseVector: pack and unpack                                           *)
(***************************************************************************)
\* the 31 bits of the magnitude of a float
Magnitude(w) == ((w[1] % 32768) * HALF) + w[2]

\* the magnitudes of +Inf, of the least normal half 2^-14 and of the
\* largest half 65504.0
MagnitudeInf == 32640 * HALF
MagnitudeHalfMin == 14464 * HALF
MagnitudeHalfMax == (18303 * HALF) + 57344

IsNaN(w) == Magnitude(w) > MagnitudeInf

\* the halves next to the float v in the range of the normal halves: v with
\* the low 13 bits of its fraction cleared, and the half above it
HalfBelow(v) == Magnitude(v) - (Magnitude(v) % 8192)
HalfAbove(v) == IF Magnitude(v) % 8192 = 0 THEN Magnitude(v) ELSE HalfBelow(v) + 8192

\* r is v rounded to half precision, in whatever direction
RoundedToHalf(v, r) ==
    IF IsNaN(v) THEN IsNaN(r)
    ELSE /\ FloatSign(r) = FloatSign(v)
         /\ IF Magnitude(v) = 0 THEN Magnitude(r) = 0
            ELSE IF Magnitude(v) = MagnitudeInf THEN Magnitude(r) = MagnitudeInf
            ELSE IF Magnitude(v) < MagnitudeHalfMin THEN Magnitude(r) <= MagnitudeHalfMin
            ELSE IF Magnitude(v) > MagnitudeHalfMax
            THEN Magnitude(r) \in {MagnitudeHalfMax, MagnitudeInf}
            ELSE Magnitude(r) \in {HalfBelow(v), HalfAbove(v)}

\* C28: packed sparse vectors round-trip: for a sparse vector v with as many
\* indices as values, SparseVector(v.pack()) has the same indices in the
\* same order and each value equal to the value of v rounded to binary16:
\* zero stays zero, a magnitude below the range of the normal halves
\* becomes a subnormal or zero and never infinity, Inf stays Inf, NaN stays
\* NaN.
C28_PackRoundTrip ==
    /\ pack_call.unpacked.indices = pack_call.vec.indices
    /\ Len(pack_call.unpacked.values) = Len(pack_call.vec.values)
    /\ \A i \in 1..Len(pack_call.vec.values) :
           RoundedToHalf(pack_call.vec.values[i], pack_call.unpacked.values[i])

(***************************************************************************)
(* SparseVectorStorage: the vector count                                   *)
(***************************************************************************)
\* C29: after any sequence of store_vector, store_vectors_batch,
\* update_vector and delete_vector calls that have returned, successful or
\* failed, storing a stored doc id and updating a doc id that is not stored
\* included, get_vector_count() equals the number of entries of the docs
\* table.
C29_CountIsEntries ==
    sparse_txn.status # "open" => vector_count = Cardinality(DOMAIN sparse_docs)


(***************************************************************************)
(* BMWIndex: the shape of the persisted blocks                             *)
(***************************************************************************)
\* the doc_diffs of the block are strictly ascending
DiffsAscending(block) ==
    \A i \in 1..(Len(block.entries) - 1) :
        block.entries[i].doc_diff < block.entries[i + 1].doc_diff

\* the smallest width of {16, 32} that holds max_diff; ids are 32 bits wide
\* in this build, so 64 is never needed
SmallestDiffBits(max_diff) == IF max_diff < 2^16 THEN 16 ELSE 32

\* every doc_diff of the block fits the width its header names, which is the
\* smallest that fits the largest of them
DiffsFit(block) ==
    /\ block.header.diff_bits = SmallestDiffBits(MaxDiff(block.entries))
    /\ block.header.diff_bits = 16
           => \A i \in 1..Len(block.entries) : block.entries[i].doc_diff < 2^16

\* the header counts the entries of the block, at least one and at most
\* SPLIT_THRESHOLD
CountInBounds(block) ==
    /\ block.header.n = Len(block.entries)
    /\ 1 <= block.header.n
    /\ block.header.n <= SPLIT_THRESHOLD

\* C30: after any sequence of add, update and remove operations, every
\* persisted posting block has its doc_diffs strictly ascending, each of them
\* below 2^diff_bits with diff_bits the smallest width that fits the largest
\* doc_diff, and an entry count n with 1 <= n <= SPLIT_THRESHOLD.
C30_BlocksWellFormed ==
    \A key \in DOMAIN term_blocks :
        /\ DiffsAscending(term_blocks[key])
        /\ DiffsFit(term_blocks[key])
        /\ CountInBounds(term_blocks[key])

\* a term with a block at document 1, and further than a 16-bit doc_diff
\* from it two blocks, one of them as full as SPLIT_THRESHOLD allows and
\* holding a tombstone
C30_Witness ==
    \E near, key, other \in DOMAIN term_blocks :
        /\ near[1] = key[1] /\ key[1] = other[1]
        /\ near[2] = 1
        /\ key[2] > DiffLimit16 /\ other[2] > DiffLimit16
        /\ key # other
        /\ term_blocks[key].header.n = SPLIT_THRESHOLD
        /\ \E i \in 1..Len(term_blocks[key].entries) : term_blocks[key].entries[i].value = 0

(***************************************************************************)
(* BMWIndex: the block list of a term                                      *)
(***************************************************************************)
\* the start_doc_ids of the block list are strictly ascending
StartsAscending(blocks) ==
    \A i \in 1..(Len(blocks) - 1) : blocks[i].start_doc_id < blocks[i + 1].start_doc_id

\* every entry stored for block i of the term lies from the start of the
\* block up to the start of the next block
BlockInRange(term_id, blocks, i) ==
    \A e \in Range(loadBlock(term_blocks, term_id, blocks[i].start_doc_id)) :
        /\ blocks[i].start_doc_id + e.doc_diff >= blocks[i].start_doc_id
        /\ i < Len(blocks) => blocks[i].start_doc_id + e.doc_diff < blocks[i + 1].start_doc_id

\* C31: after any sequence of add operations (documents in any order of doc
\* id, blocks forced by a gap of 2^16 or more, blocks created before the
\* first block, splits), the start_doc_ids of each term's block list are
\* strictly ascending and consecutive blocks do not overlap: every entry of
\* a block has a doc id at or above the block's start_doc_id and below the
\* next block's start_doc_id.
C31_BlocksDisjoint ==
    \A term_id \in DOMAIN term_blocks_index :
        /\ StartsAscending(term_blocks_index[term_id])
        /\ \A i \in 1..Len(term_blocks_index[term_id]) :
               BlockInRange(term_id, term_blocks_index[term_id], i)

\* a term with three blocks: the first block, one a gap of 2^16 forced and
\* one created before it or split off it, with more than one entry in a block
C31_Witness ==
    \E term_id \in DOMAIN term_blocks_index :
        /\ Len(term_blocks_index[term_id]) >= 3
        /\ term_blocks_index[term_id][1].start_doc_id = 1
        /\ term_blocks_index[term_id][2].start_doc_id > DiffLimit16
        /\ \E i \in 1..Len(term_blocks_index[term_id]) :
               Len(loadBlock(term_blocks, term_id,
                             term_blocks_index[term_id][i].start_doc_id)) > 1


\* the entries of a stored block whose quantized value is above 0, which are
\* the entries the search iterator stops at
LiveStored(block) == {i \in 1..Len(block.entries) : block.entries[i].value > 0}

\* C32: in every persisted block the header's live_count equals the number
\* of entries whose stored quantized value (uint8) is greater than 0, the
\* entries the search iterator treats as live.
C32_LiveCount ==
    \A key \in DOMAIN term_blocks :
        term_blocks[key].header.live_count = Cardinality(LiveStored(term_blocks[key]))


\* the block_max_value the block list of the term holds for block i is the
\* block_max_value in the header of the stored block
ScaleAgrees(term_id, blocks, i) ==
    <<term_id, blocks[i].start_doc_id>> \in DOMAIN term_blocks
        => blocks[i].block_max_value
               = term_blocks[<<term_id, blocks[i].start_doc_id>>].header.block_max_value

ScalesAgree ==
    \A term_id \in DOMAIN term_blocks_index :
        \A i \in 1..Len(term_blocks_index[term_id]) :
            ScaleAgrees(term_id, term_blocks_index[term_id], i)

\* C33: after every successful add, update or remove (a write that was
\* committed and changed the stored blocks), for every block the
\* block_max_value of the in-memory BlockIdx, the scale the search iterator
\* dequantizes with, equals the block_max_value of the block's persisted
\* header, the scale the values were quantized with.
C33_ScalesAgree == [][term_blocks' # term_blocks => ScalesAgree']_vars


(***************************************************************************)
(* BMWIndex::search: progress of the main loop                             *)
(***************************************************************************)
\* no iterator of the round moved back and one of them rests on a strictly
\* larger doc id than before (an exhausted iterator rests on IdIntMax)
MovedOn(before, after) ==
    /\ \A i \in 1..Len(before) : after[i].current_doc_id >= before[i].current_doc_id
    /\ \E i \in 1..Len(before) : after[i].current_doc_id > before[i].current_doc_id

\* the rounds of the search loop from the sorted iterators on: every round
\* stops the loop or moves the iterators on
RECURSIVE ProgressLoop(_, _, _, _, _, _)
RECURSIVE ProgressPivot(_, _, _, _, _, _, _)
RECURSIVE ProgressScored(_, _, _, _, _, _, _)
ProgressLoop(sorted, top_k, threshold, k, index, db) ==
    IF DropExhausted(sorted) = <<>> THEN TRUE
    ELSE ProgressPivot(DropExhausted(sorted),
                       PivotIdx(DropExhausted(sorted), threshold, index),
                       top_k, threshold, k, index, db)

ProgressPivot(iterators, pivot_idx, top_k, threshold, k, index, db) ==
    IF pivot_idx = 0 THEN TRUE
    ELSE IF iterators[1].current_doc_id = iterators[pivot_idx].current_doc_id
    THEN /\ IteratorNext(iterators[1], index, db).current_doc_id
                > iterators[1].current_doc_id
         /\ MovedOn(iterators,
                    ScoredIterators(iterators, iterators[pivot_idx].current_doc_id,
                                    index, db))
         /\ ProgressScored(
                SortIterators(ScoredIterators(iterators,
                                              iterators[pivot_idx].current_doc_id,
                                              index, db)),
                BMWCandidate(iterators[pivot_idx].current_doc_id,
                             CandidateScore(iterators, 1,
                                            iterators[pivot_idx].current_doc_id,
                                            index, db)),
                top_k, threshold, k, index, db)
    ELSE /\ MovedOn(iterators,
                    AdvancedToPivot(iterators, pivot_idx,
                                    iterators[pivot_idx].current_doc_id, index, db))
         /\ ProgressLoop(
                SortIterators(AdvancedToPivot(iterators, pivot_idx,
                                              iterators[pivot_idx].current_doc_id,
                                              index, db)),
                top_k, threshold, k, index, db)

\* top_k and the threshold after the candidate of a round: pushed while
\* top_k holds fewer than k, put in the place of the lowest when it beats the
\* threshold, dropped otherwise
PushedTopK(top_k, cand, threshold, k) ==
    IF Len(top_k) < k THEN HeapPush(top_k, cand)
    ELSE IF cand.score > threshold THEN HeapPush(HeapPop(top_k), cand)
    ELSE top_k

PushedThreshold(top_k, cand, threshold, k) ==
    IF Len(top_k) < k
    THEN (IF Len(top_k) + 1 = k THEN HeapPush(top_k, cand)[1].score ELSE threshold)
    ELSE IF cand.score > threshold THEN HeapPush(HeapPop(top_k), cand)[1].score
    ELSE threshold

ProgressScored(after, cand, top_k, threshold, k, index, db) ==
    ProgressLoop(after, PushedTopK(top_k, cand, threshold, k),
                 PushedThreshold(top_k, cand, threshold, k), k, index, db)

\* the number of rounds of the loop that score no candidate and advance the
\* iterators before the pivot
RECURSIVE AdvanceRounds(_, _, _, _, _, _)
RECURSIVE AdvanceRoundsFrom(_, _, _, _, _, _, _)
AdvanceRounds(sorted, top_k, threshold, k, index, db) ==
    IF DropExhausted(sorted) = <<>> THEN 0
    ELSE AdvanceRoundsFrom(DropExhausted(sorted),
                           PivotIdx(DropExhausted(sorted), threshold, index),
                           top_k, threshold, k, index, db)

AdvanceRoundsFrom(iterators, pivot_idx, top_k, threshold, k, index, db) ==
    IF pivot_idx = 0 THEN 0
    ELSE IF iterators[1].current_doc_id = iterators[pivot_idx].current_doc_id
    THEN AdvanceRounds(
             SortIterators(ScoredIterators(iterators, iterators[pivot_idx].current_doc_id,
                                           index, db)),
             PushedTopK(top_k,
                        BMWCandidate(iterators[pivot_idx].current_doc_id,
                                     CandidateScore(iterators, 1,
                                                    iterators[pivot_idx].current_doc_id,
                                                    index, db)),
                        threshold, k),
             PushedThreshold(top_k,
                             BMWCandidate(iterators[pivot_idx].current_doc_id,
                                          CandidateScore(iterators, 1,
                                                         iterators[pivot_idx].current_doc_id,
                                                         index, db)),
                             threshold, k),
             k, index, db)
    ELSE 1 + AdvanceRounds(
                 SortIterators(AdvancedToPivot(iterators, pivot_idx,
                                               iterators[pivot_idx].current_doc_id,
                                               index, db)),
                 top_k, threshold, k, index, db)

\* C34: search terminates for every query in every state of the index that
\* add, update and remove reach: each round of the main loop scores a
\* candidate and moves the first iterator forward, or advances at least one
\* iterator to a strictly larger doc id, or stops; no iterator moves back,
\* and doc ids are bounded, so the loop ends after finitely many rounds.
C34_SearchProgress ==
    \A query \in BmwQueries : \A k \in 1..MaxDocId :
        ProgressLoop(SortIterators(QueryIterators(query, term_blocks_index, term_blocks)),
                     <<>>, 0, k, term_blocks_index, term_blocks)

\* a search that scores a candidate and then takes a round that only
\* advances iterators, over a term that holds a tombstone
C34_Witness ==
    /\ \E key \in DOMAIN term_blocks :
           \E i \in 1..Len(term_blocks[key].entries) : term_blocks[key].entries[i].value = 0
    /\ \E query \in BmwQueries : \E k \in 1..MaxDocId :
           /\ search(term_blocks_index, term_blocks, query, k) # <<>>
           /\ AdvanceRounds(SortIterators(QueryIterators(query, term_blocks_index,
                                                        term_blocks)),
                            <<>>, 0, k, term_blocks_index, term_blocks) > 0

(***************************************************************************)
(* IDMapper: concurrent calls on the same external id                      *)
(***************************************************************************)
\* the positions of the string in the batch of thread t's call
PositionsOf(t, str_id) == {i \in 1..Len(call[t].str_ids) : call[t].str_ids[i] = str_id}

\* both threads hold the result of a call that named the string once
BothReturned(t, u, str_id) ==
    /\ call[t].pc = "done" /\ call[u].pc = "done"
    /\ Cardinality(PositionsOf(t, str_id)) = 1
    /\ Cardinality(PositionsOf(u, str_id)) = 1

\* C35: when two create_ids_batch calls that both contain the same external
\* id, not mapped yet, run concurrently, both callers get the same internal
\* id for it, which is the id the ext->int map holds afterwards, and only one
\* of them is told is_new_to_graph = true.
C35_SameIdForBoth ==
    \A t, u \in Threads : \A str_id \in ExtIds :
        (t # u /\ BothReturned(t, u, str_id)) =>
            \A i \in PositionsOf(t, str_id) : \A j \in PositionsOf(u, str_id) :
                /\ call[t].result[i][1] = call[u].result[j][1]
                /\ str_id \in DOMAIN ext2int
                /\ ext2int[str_id] = call[t].result[i][1]
                /\ ~(call[t].result[i][2] /\ call[u].result[j][2])


(***************************************************************************)
(* BitmapIndex: concurrent updates of one posting                          *)
(***************************************************************************)
\* no call on the bitmap index is between its read and its store
NoBitmapCallInFlight == \A t \in Threads : bitmap_call[t].pc # "store"

\* C36: concurrent updates of the same bitmap posting never lose an id: when
\* add, add_batch_by_key and remove calls on the same key run concurrently
\* from different threads, the bitmap stored once they have returned holds
\* every id they added (and did not remove afterwards).
C36_NoLostId ==
    NoBitmapCallInFlight =>
        \A key \in DOMAIN bitmap_added : bitmap_added[key] \subseteq GetBitmap(bitmap_db, key)


(***************************************************************************)
(* SparseVectorStorage::Transaction: what commit() reports                 *)
(***************************************************************************)
\* C37: Transaction::commit() returns true only if the writes of the
\* transaction were committed to the store; in particular after abort() the
\* writes are discarded and a later commit() does not report success, and
\* commit() after a successful commit() returns true.
C37_CommitMeansCommitted == txn_obj.result = "true" => txn_obj.applied


(***************************************************************************)
(* IDMapper::get_count                                                     *)
(***************************************************************************)
\* C38: after any sequence of create_ids_batch, delete_points and
\* reclaim_failed_ids calls on a mapper created with is_new = true,
\* get_count() equals the number of external ids mapped in ext->int.
C38_CountIsMapped == get_count = Cardinality(DOMAIN ext2int)


(***************************************************************************)
(* BruteforceSearch::searchKnn                                             *)
(***************************************************************************)
\* The stored slots whose label the filter allows
AllowedSlots(allowed) ==
    {i \in 0..(cur_element_count - 1) : data_[i].label \in allowed}

\* The results are allowed stored points, as many as k and the filter
\* permit, and no allowed point left out is nearer than a returned one
ExactKnn(query, k, allowed, results) ==
    LET slots == {r.slot : r \in results}
        stored == AllowedSlots(allowed)
    IN  /\ slots \subseteq stored
        /\ Cardinality(results) = Min(k, Cardinality(stored))
        /\ \A i \in stored \ slots :
               \A r \in results : Dist(query, data_[i].point) >= r.dist

\* C39: searchKnn(query, k, filter) is exact: it returns the
\* min(k, number of stored points the filter allows) allowed points with the
\* smallest distances to the query.
C39_SearchKnnExact ==
    ~bf_undefined =>
        \A query \in Points, k \in 1..cur_element_count, allowed \in SUBSET Labels :
            ExactKnn(query, k, allowed, searchKnn(query, k, allowed))


(***************************************************************************)
(* BruteforceSearch: the dictionary and the stored slots                   *)
(***************************************************************************)
\* C40: after any sequence of addPoint and removePoint calls,
\* dict_external_to_internal maps exactly the labels stored at the slots
\* [0, cur_element_count) one-to-one onto those slots, so that a removed
\* label is no longer in the dictionary.
C40_DictMatchesSlots ==
    ~bf_undefined =>
        /\ DOMAIN dict_external_to_internal =
               {data_[i].label : i \in 0..(cur_element_count - 1)}
        /\ \A i \in 0..(cur_element_count - 1) :
               dict_external_to_internal[data_[i].label] = i

====
